---- MODULE Spec2Model ----
(***************************************************************************)
(* Colour-accessibility analysis engine of the DigitalAccessibility        *)
(* repository: hex decoding, WCAG relative luminance and contrast ratio,   *)
(* rating bands, colour-blindness simulation, the contrast matrix of a     *)
(* palette, its accessible pairings and their colour-blindness analysis,   *)
(* the summary of the report and its list of pairs, the contrast checks    *)
(* and the row loop of the layer audit, and the two layer extractors.      *)
(*                                                                         *)
(* Number representations                                                  *)
(*  - simulate_color_blindness truncates a binary64 value with int(), so   *)
(*    its arithmetic is modelled as IEEE-754 binary64 (round to nearest,   *)
(*    ties to even) on exact naturals held as limb sequences.              *)
(*  - luminance and contrast ratio are real-valued in the source and only  *)
(*    compared and divided; they are modelled in fixed point, rounding     *)
(*    toward zero: adjust() in units of 1/AdjScale, luminance in units of  *)
(*    1/LumScale, contrast ratio in units of 1/RatioScale.                 *)
(*  - a Python str is a sequence of one-character strings.                 *)
(***************************************************************************)
EXTENDS Integers, Sequences, FiniteSets, TLC

(***************************************************************************)
(* Exact natural numbers: little-endian limb sequences in base 2^13,       *)
(* without leading zero limbs (zero is the empty sequence).                *)
(***************************************************************************)
LimbBits == 13

Base == 2 ^ LimbBits

Max(x, y) == IF x >= y THEN x ELSE y

Min(x, y) == IF x <= y THEN x ELSE y

Limb(a, i) == IF 1 <= i /\ i <= Len(a) THEN a[i] ELSE 0

\* the function f on 1..n as a tuple of its values
Tuple(f, n) == SubSeq(f, 1, n)

\* drop the leading (most significant) zero limbs
BNorm(a) ==
    LET n == CHOOSE n \in 0..Len(a) :
                 /\ n = 0 \/ a[n] # 0
                 /\ \A j \in (n + 1)..Len(a) : a[j] = 0
    IN  SubSeq(a, 1, n)

RECURSIVE Carry(_)
\* propagate carries until every limb is below Base (limbs of x are < 2^31)
Carry(x) ==
    IF \A i \in 1..Len(x) : x[i] < Base THEN x
    ELSE Carry(Tuple([i \in 1..(Len(x) + 1) |->
                         (Limb(x, i) % Base) + (Limb(x, i - 1) \div Base)], Len(x) + 1))

BN(n) == BNorm(Carry(<<n>>))

BAdd(a, b) ==
    BNorm(Carry(Tuple([i \in 1..Max(Len(a), Len(b)) |-> Limb(a, i) + Limb(b, i)],
                      Max(Len(a), Len(b)))))

\* a * k for 0 <= k <= 2^17
BMulSmall(a, k) == BNorm(Carry(Tuple([i \in 1..Len(a) |-> a[i] * k], Len(a))))

RECURSIVE ColumnSum(_, _, _, _)
\* sum of a[i] * b[k + 1 - i] over i..Len(a)
ColumnSum(a, b, k, i) ==
    IF i > Len(a) \/ i > k THEN 0
    ELSE a[i] * Limb(b, k + 1 - i) + ColumnSum(a, b, k, i + 1)

\* a * b, for operands of at most 2^5 limbs
BMul(a, b) ==
    IF a = <<>> \/ b = <<>> THEN <<>>
    ELSE BNorm(Carry(Tuple([k \in 1..(Len(a) + Len(b) - 1) |->
                               ColumnSum(a, b, k, Max(1, k + 1 - Len(b)))],
                           Len(a) + Len(b) - 1)))

RECURSIVE BDivSmallR(_, _, _)
\* long division of the i most significant limbs of a by k
BDivSmallR(a, k, i) ==
    IF i = 0 THEN [q |-> <<>>, r |-> 0]
    ELSE LET hi  == BDivSmallR(a, k, i - 1)
             cur == hi.r * Base + a[Len(a) - i + 1]
         IN  [q |-> <<cur \div k>> \o hi.q, r |-> cur % k]

\* floor(a / k) and a mod k for 0 < k <= 2^17
BDivSmall(a, k) ==
    LET d == BDivSmallR(a, k, Len(a)) IN [q |-> BNorm(d.q), r |-> d.r]

\* the number of bits of a limb n: the least k with n < 2^k
BitLenSmall(n) == CHOOSE k \in 0..LimbBits : n < 2 ^ k /\ (k = 0 \/ 2 ^ (k - 1) <= n)

BBitLen(a) == IF a = <<>> THEN 0 ELSE LimbBits * (Len(a) - 1) + BitLenSmall(a[Len(a)])

\* a * 2^n
BShl(a, n) ==
    IF a = <<>> THEN <<>>
    ELSE Tuple([i \in 1..(n \div LimbBits) |-> 0], n \div LimbBits)
             \o BMulSmall(a, 2 ^ (n % LimbBits))

\* floor(a / 2^n)
BShr(a, n) ==
    LET w == n \div LimbBits
        s == n % LimbBits
    IN  BNorm([i \in 1..Max(0, Len(a) - w) |->
                  (Limb(a, i + w) \div 2 ^ s) + (Limb(a, i + w + 1) % 2 ^ s) * 2 ^ (LimbBits - s)])

BIsOdd(a) == a # <<>> /\ a[1] % 2 = 1

RECURSIVE BToInt(_)
\* value of a, for a < 2^31
BToInt(a) == IF a = <<>> THEN 0 ELSE Head(a) + Base * BToInt(Tail(a))

(***************************************************************************)
(* IEEE-754 binary64, non-negative finite values: [m, e] stands for        *)
(* m * 2^e with m = 0 or 2^52 <= m < 2^53.                                 *)
(***************************************************************************)
MantBits == 53

FZero == [m |-> <<>>, e |-> 0]

\* n has more than MantBits bits and q2 = floor(n / 2^(k-1)) holds its leading
\* MantBits bits followed by the half bit: round up when the discarded part is
\* above one half, or is one half and the kept part is odd
RoundUp(n, k, q2) == BIsOdd(q2) /\ (BShl(q2, k - 1) # n \/ BIsOdd(BShr(q2, 1)))

\* a carry out of the mantissa after rounding up
Renorm(m, e) ==
    IF BBitLen(m) > MantBits THEN [m |-> BShr(m, 1), e |-> e + 1] ELSE [m |-> m, e |-> e]

RoundCut(n, e, k, q2) ==
    Renorm(IF RoundUp(n, k, q2) THEN BAdd(BShr(q2, 1), <<1>>) ELSE BShr(q2, 1), e + k)

\* L is the number of bits of n
RoundBits(n, e, L) ==
    IF L = 0 THEN FZero
    ELSE IF L <= MantBits THEN [m |-> BShl(n, MantBits - L), e |-> e - (MantBits - L)]
    ELSE RoundCut(n, e, L - MantBits, BShr(n, L - MantBits - 1))

\* the binary64 nearest to n * 2^e (ties to even)
RoundD(n, e) == RoundBits(n, e, BBitLen(n))

FromInt(n) == RoundD(BN(n), 0)

FMul(x, y) == RoundD(BMul(x.m, y.m), x.e + y.e)

FAdd(x, y) ==
    IF x.m = <<>> THEN y
    ELSE IF y.m = <<>> THEN x
    ELSE LET lo == IF x.e < y.e THEN x.e ELSE y.e
         IN  RoundD(BAdd(BShl(x.m, x.e - lo), BShl(y.m, y.e - lo)), lo)

GuardBits == 26

\* the quotient d.q with a sticky bit for a non-zero remainder, rounded
DivRound(d, e) == RoundD(BAdd(BShl(d.q, 1), IF d.r = 0 THEN <<>> ELSE <<1>>), e)

\* x / k for an integer-valued divisor 0 < k < 2^17 (255.0, or the
\* denominator of a decimal literal)
FDivInt(x, k) == DivRound(BDivSmall(BShl(x.m, GuardBits), k), x.e - GuardBits - 1)

\* the binary64 value of the decimal literal p/q, e.g. 0.567 is Lit(567, 1000)
Lit(p, q) == FDivInt(FromInt(p), q)

\* int(x) for x >= 0
FTrunc(x) ==
    IF x.m = <<>> THEN 0
    ELSE IF x.e >= 0 THEN BToInt(BShl(x.m, x.e))
    ELSE BToInt(BShr(x.m, 0 - x.e))

(***************************************************************************)
(* simulate_color_blindness                                                 *)
(***************************************************************************)
CB_TYPES == {"deuteranopia", "protanopia", "tritanopia"}

\* the binary64 values of the literals of the three matrices, and of 255.0
\* a mistyped coefficient: 0.725 for 0.625
K0_725 == Lit(725, 1000)

K0_625 == Lit(625, 1000)
K0_375 == Lit(375, 1000)
K0_7   == Lit(7, 10)
K0_3   == Lit(3, 10)
K0_567 == Lit(567, 1000)
K0_433 == Lit(433, 1000)
K0_558 == Lit(558, 1000)
K0_442 == Lit(442, 1000)
K0_242 == Lit(242, 1000)
K0_758 == Lit(758, 1000)
K0_95  == Lit(95, 100)
K0_05  == Lit(5, 100)
K0_475 == Lit(475, 1000)
K0_525 == Lit(525, 1000)
K255   == FromInt(255)

\* c / 255.0 for every channel value c in 0..255, at Norm255[c + 1]
Norm255 == Tuple([i \in 1..256 |-> FDivInt(FromInt(i - 1), 255)], 256)

\* <<r / 255.0, g / 255.0, b / 255.0>>
Normalised(rgb) == Tuple([i \in 1..3 |-> Norm255[rgb[i] + 1]], 3)

\* the coefficients of r, g and b in sim_r, sim_g and sim_b
Coefficients(cb_type) ==
    IF cb_type = "deuteranopia" THEN
        << <<K0_625, K0_375, FZero>>,
           <<K0_7,   K0_3,   FZero>>,
           <<FZero,  K0_3,   K0_7>> >>
    ELSE IF cb_type = "protanopia" THEN
        << <<K0_567, K0_433, FZero>>,
           <<K0_558, K0_442, FZero>>,
           <<FZero,  K0_242, K0_758>> >>
    ELSE
        << <<K0_95,  K0_05,  FZero>>,
           <<FZero,  K0_433, K0_567>>,
           <<FZero,  K0_475, K0_525>> >>

\* x * r + y * g + z * b, evaluated left to right in binary64
Row3(row, n) == FAdd(FAdd(FMul(row[1], n[1]), FMul(row[2], n[2])), FMul(row[3], n[3]))

\* int(sim * 255)
Back255(sim) == FTrunc(FMul(sim, K255))

\* <<int(sim_r * 255), int(sim_g * 255), int(sim_b * 255)>>
Transform(rows, n) == Tuple([i \in 1..3 |-> Back255(Row3(rows[i], n))], 3)

\* (r * 255, g * 255, b * 255), the early return for a type that is not known
Unchanged(n) == Tuple([i \in 1..3 |-> FMul(n[i], K255)], 3)

\* For the three known types the result is a triple of ints; for any other
\* cb_type it is the triple of binary64 values (r * 255, g * 255, b * 255).
simulate_color_blindness(r, g, b, cb_type) ==
    IF cb_type \in {"deuteranopia", "protanopia", "tritanopia"}
    THEN Transform(Coefficients(cb_type), Normalised(<<r, g, b>>))
    ELSE Unchanged(Normalised(<<r, g, b>>))

(***************************************************************************)
(* rgb_to_luminance (fixed point)                                          *)
(***************************************************************************)
AdjScale == 100000

LumScale == 1000000

RatioScale == 1000

\* ((c / 255.0 + 0.055) / 1.055) ** 2.4 in units of 1/AdjScale, rounded toward
\* zero, for the channel values c = 0..255, at Pow24Table[c + 1]: the values
\* of the library function pow at the arguments adjust() can pass to it
Pow24Table ==
    <<
           83,     98,    114,    132,    152,    173,    196,    220,
          246,    274,    303,    334,    367,    402,    439,    477,
          518,    560,    604,    651,    699,    749,    802,    856,
          913,    972,   1032,   1096,   1161,   1228,   1298,   1370,
         1444,   1520,   1599,   1680,   1764,   1850,   1938,   2028,
         2121,   2217,   2315,   2415,   2518,   2624,   2732,   2842,
         2955,   3071,   3189,   3310,   3433,   3560,   3688,   3820,
         3954,   4091,   4231,   4373,   4518,   4666,   4817,   4970,
         5126,   5286,   5448,   5612,   5780,   5951,   6124,   6301,
         6480,   6662,   6847,   7036,   7227,   7421,   7618,   7818,
         8021,   8228,   8437,   8650,   8865,   9084,   9305,   9530,
         9758,   9989,  10224,  10461,  10702,  10946,  11193,  11443,
        11697,  11953,  12213,  12477,  12743,  13013,  13286,  13563,
        13843,  14126,  14412,  14702,  14995,  15292,  15592,  15896,
        16202,  16513,  16826,  17144,  17464,  17788,  18116,  18447,
        18782,  19120,  19461,  19806,  20155,  20507,  20863,  21223,
        21586,  21952,  22322,  22696,  23074,  23455,  23839,  24228,
        24620,  25015,  25415,  25818,  26225,  26635,  27049,  27467,
        27889,  28314,  28744,  29177,  29613,  30054,  30498,  30946,
        31398,  31854,  32314,  32777,  33245,  33716,  34191,  34670,
        35153,  35640,  36130,  36625,  37123,  37626,  38132,  38642,
        39157,  39675,  40197,  40724,  41254,  41788,  42326,  42869,
        43415,  43965,  44520,  45078,  45641,  46207,  46778,  47353,
        47932,  48514,  49102,  49693,  50288,  50888,  51491,  52099,
        52711,  53327,  53947,  54572,  55201,  55834,  56471,  57112,
        57758,  58407,  59061,  59720,  60382,  61049,  61720,  62396,
        63075,  63759,  64447,  65140,  65837,  66538,  67244,  67954,
        68668,  69387,  70110,  70837,  71569,  72305,  73046,  73791,
        74540,  75294,  76052,  76815,  77582,  78353,  79129,  79910,
        80695,  81484,  82278,  83076,  83879,  84687,  85499,  86315,
        87136,  87962,  88792,  89626,  90466,  91309,  92158,  93011,
        93868,  94730,  95597,  96468,  97344,  98225,  99110, 100000
    >>

\* the threshold 0.0031308 of the inverse transform in place of 0.03928
adjust_0031308(c) ==
    IF c * 10000000 <= 31308 * 255
    THEN (c * 100 * AdjScale) \div (255 * 1292)
    ELSE Pow24Table[c + 1]

\* adjust(c) of rgb_to_luminance for a channel c in 0..255, in units of
\* 1/AdjScale; c / 255.0 <= 0.03928 is c * 100000 <= 3928 * 255
adjust(c) ==
    IF c * 100000 <= 3928 * 255
    THEN (c * 100 * AdjScale) \div (255 * 1292)
    ELSE Pow24Table[c + 1]

\* mistyped weights: 0.7512 for 0.7152
rgb_to_luminance_7512(r, g, b) ==
    (2126 * adjust(r) + 7512 * adjust(g) + 722 * adjust(b)) \div ((10000 * AdjScale) \div LumScale)

\* 0.2126 * r_adj + 0.7152 * g_adj + 0.0722 * b_adj, in units of 1/LumScale
rgb_to_luminance(r, g, b) ==
    LET r_adj == adjust(r)
        g_adj == adjust(g)
        b_adj == adjust(b)
    IN  (2126 * r_adj + 7152 * g_adj + 722 * b_adj) \div ((10000 * AdjScale) \div LumScale)

\* adjust(color) of relative_luminance in LayerAudit/BaselineAuditstoJSON.py
\* for color = x / 255.0, x in 0..255, in units of 1/AdjScale
audit_adjust(x) ==
    IF x * 100000 <= 3928 * 255
    THEN (x * 100 * AdjScale) \div (255 * 1292)
    ELSE Pow24Table[x + 1]

\* relative_luminance(rgb) of LayerAudit/BaselineAuditstoJSON.py, in units
\* of 1/LumScale
relative_luminance(rgb) ==
    (2126 * audit_adjust(rgb[1]) + 7152 * audit_adjust(rgb[2]) + 722 * audit_adjust(rgb[3]))
        \div ((10000 * AdjScale) \div LumScale)

(***************************************************************************)
(* Strings and hex decoding                                                *)
(***************************************************************************)
HexLower == <<"0", "1", "2", "3", "4", "5", "6", "7", "8", "9", "a", "b", "c", "d", "e", "f">>

HexUpper == <<"0", "1", "2", "3", "4", "5", "6", "7", "8", "9", "A", "B", "C", "D", "E", "F">>

IsHexDigit(ch) == \E i \in 1..16 : HexLower[i] = ch \/ HexUpper[i] = ch

HexVal(ch) == (CHOOSE i \in 1..16 : HexLower[i] = ch \/ HexUpper[i] = ch) - 1

Whitespace == {" ", "\t", "\n", "\r", "\f"}

\* str.lstrip(chars): drop every leading character that is in chars
lstrip(s, chars) ==
    LET k == CHOOSE k \in 0..Len(s) :
                 /\ \A i \in 1..k : s[i] \in chars
                 /\ k = Len(s) \/ s[k + 1] \notin chars
    IN  SubSeq(s, k + 1, Len(s))

\* str.rstrip(chars)
rstrip(s, chars) ==
    LET k == CHOOSE k \in 0..Len(s) :
                 /\ \A i \in (k + 1)..Len(s) : s[i] \in chars
                 /\ k = 0 \/ s[k] \notin chars
    IN  SubSeq(s, 1, k)

\* the slice s[i:j] for 0 <= i <= j
Slice(s, i, j) == SubSeq(s, Min(i, Len(s)) + 1, Min(j, Len(s)))

RECURSIVE DigitsValue(_)
\* the base-16 value of a digit string, underscores skipped
DigitsValue(d) ==
    IF d = <<>> THEN 0
    ELSE IF d[Len(d)] = "_" THEN DigitsValue(SubSeq(d, 1, Len(d) - 1))
    ELSE 16 * DigitsValue(SubSeq(d, 1, Len(d) - 1)) + HexVal(d[Len(d)])

\* the digits of an unsigned literal: a 0x prefix, and one underscore after
\* it, are dropped
strip_prefix(u) ==
    IF Len(u) >= 2 /\ u[1] = "0" /\ u[2] \in {"x", "X"}
    THEN IF Len(u) >= 3 /\ u[3] = "_" THEN SubSeq(u, 4, Len(u)) ELSE SubSeq(u, 3, Len(u))
    ELSE u

\* hex digits that single underscores may separate
valid_digits(d) ==
    /\ d # <<>>
    /\ \A i \in 1..Len(d) : IsHexDigit(d[i]) \/ d[i] = "_"
    /\ IsHexDigit(d[1])
    /\ IsHexDigit(d[Len(d)])
    /\ \A i \in 1..(Len(d) - 1) : ~(d[i] = "_" /\ d[i + 1] = "_")

parse_digits(d, negative) ==
    IF ~valid_digits(d) THEN [ok |-> FALSE, val |-> 0]
    ELSE IF negative THEN [ok |-> TRUE, val |-> 0 - DigitsValue(d)]
    ELSE [ok |-> TRUE, val |-> DigitsValue(d)]

\* t is s without its surrounding whitespace
parse_signed(t) ==
    IF t # <<>> /\ t[1] \in {"+", "-"}
    THEN parse_digits(strip_prefix(Tail(t)), t[1] = "-")
    ELSE parse_digits(strip_prefix(t), FALSE)

\* int(s, 16): surrounding whitespace, an optional sign, an optional 0x prefix,
\* then hex digits that single underscores may separate; anything else raises
\* ValueError (ok = FALSE)
int_base16(s) == parse_signed(rstrip(lstrip(s, Whitespace), Whitespace))

\* the three ints as a tuple, or the ValueError that one of them raised
as_tuple(c) ==
    IF \A i \in 1..3 : c[i].ok
    THEN [kind |-> "tuple", val |-> <<c[1].val, c[2].val, c[3].val>>]
    ELSE [kind |-> "ValueError", val |-> <<>>]

\* tuple(int(hex_color[i:i+2], 16) for i in (0, 2, 4))
channel_tuple(hex_color) ==
    as_tuple(Tuple([k \in 1..3 |-> int_base16(Slice(hex_color, 2 * (k - 1), 2 * k))], 3))

\* hex_to_rgb of VisionDeficient24ColorPaletteContrastAnalysis.py
hex_to_rgb(hex_color) == channel_tuple(lstrip(hex_color, {"#"}))

\* hex_to_rgb of LayerAudit/BaselineAuditstoJSON.py
audit_hex_to_rgb(hex_color) ==
    LET h == lstrip(hex_color, {"#"})
    IN  IF Len(h) = 6 THEN channel_tuple(h) ELSE [kind |-> "None", val |-> <<>>]

RECURSIVE HexDigitsOf(_)
\* the lowercase hex digits of n >= 0
HexDigitsOf(n) ==
    IF n < 16 THEN <<HexLower[n + 1]>>
    ELSE HexDigitsOf(n \div 16) \o <<HexLower[(n % 16) + 1]>>

\* "{:02x}".format(n) for an int n
format_02x(n) ==
    IF n < 0 THEN
        LET d == HexDigitsOf(0 - n)
        IN  <<"-">> \o (IF Len(d) < 1 THEN <<"0">> ELSE <<>>) \o d
    ELSE
        LET d == HexDigitsOf(n)
        IN  (IF Len(d) < 2 THEN <<"0">> ELSE <<>>) \o d

\* rgb_to_hex of BaselineAccessibilityAudit.py for a sequence of ints: channels
\* that all lie in 0..1 are taken for floats 0..1 and scaled by 255; a sequence
\* shorter than 3 raises inside the try and yields ""
rgb_to_hex(rgb) ==
    IF Len(rgb) < 3 THEN <<>>
    ELSE LET r == rgb[1]
             g == rgb[2]
             b == rgb[3]
             unit == 0 <= r /\ r <= 1 /\ 0 <= g /\ g <= 1 /\ 0 <= b /\ b <= 1
             conv(c) == IF unit THEN c * 255 ELSE c
         IN  <<"#">> \o format_02x(conv(r)) \o format_02x(conv(g)) \o format_02x(conv(b))

(***************************************************************************)
(* Contrast ratio and rating                                               *)
(***************************************************************************)
\* Color palette with names
COLORS ==
    <<
       <<<<"#", "5", "6", "0", "1", "3", "3">>, "Mulberry">>,
       <<<<"#", "0", "0", "5", "7", "4", "5">>, "Deep Opal">>,
       <<<<"#", "9", "F", "0", "1", "6", "2">>, "Jazzberry Jam">>,
       <<<<"#", "0", "0", "9", "1", "7", "5">>, "Elf Green">>,
       <<<<"#", "E", "F", "0", "0", "9", "6">>, "Persian Rose">>,
       <<<<"#", "0", "0", "C", "B", "A", "7">>, "Aquamarine">>,
       <<<<"#", "F", "F", "9", "D", "C", "8">>, "Amaranth Pink">>,
       <<<<"#", "8", "6", "F", "F", "D", "E">>, "Light Turquoise">>,
       <<<<"#", "4", "5", "0", "2", "7", "0">>, "Christalle">>,
       <<<<"#", "0", "0", "4", "8", "9", "E">>, "Tory Blue">>,
       <<<<"#", "8", "4", "0", "0", "C", "D">>, "French Violet">>,
       <<<<"#", "0", "0", "7", "9", "F", "A">>, "Azure">>,
       <<<<"#", "D", "A", "0", "0", "F", "D">>, "Psychedelic Purple">>,
       <<<<"#", "0", "0", "C", "2", "F", "9">>, "Capri">>,
       <<<<"#", "F", "F", "9", "2", "F", "D">>, "Violet">>,
       <<<<"#", "7", "C", "F", "F", "F", "A">>, "Electric Blue">>,
       <<<<"#", "0", "0", "4", "0", "0", "2">>, "British Racing Green">>,
       <<<<"#", "7", "E", "0", "0", "1", "8">>, "Hot Chile">>,
       <<<<"#", "0", "0", "7", "7", "0", "2">>, "Bilbao">>,
       <<<<"#", "C", "D", "0", "2", "2", "D">>, "Amaranth Red">>,
       <<<<"#", "0", "0", "B", "4", "0", "8">>, "Kelly Green">>,
       <<<<"#", "F", "F", "6", "E", "3", "A">>, "Burning Orange">>,
       <<<<"#", "0", "0", "F", "4", "0", "7">>, "Radioactive Green">>,
       <<<<"#", "F", "F", "D", "C", "3", "D">>, "Gargoyle Gas">>,
       <<<<"#", "0", "0", "0", "0", "0", "0">>, "Black">>,
       <<<<"#", "F", "F", "F", "F", "F", "F">>, "White">>
    >>

\* the first luminance taken for the lighter one
max_first(lum1, lum2) == lum1

\* the builtins max and min on two luminances
max(lum1, lum2) == IF lum1 >= lum2 THEN lum1 ELSE lum2

min(lum1, lum2) == IF lum1 <= lum2 THEN lum1 ELSE lum2

\* the quotient turned upside down
ratio_inverted(lighter, darker) ==
    ((darker + LumScale \div 20) * RatioScale) \div (lighter + LumScale \div 20)

\* a mistyped offset in the denominator: 0.5 for 0.05
ratio_offset(lighter, darker) ==
    ((lighter + LumScale \div 20) * RatioScale) \div (darker + LumScale \div 2)

\* (lighter + 0.05) / (darker + 0.05) in units of 1/RatioScale, rounded toward zero
ratio_of(lighter, darker) ==
    ((lighter + LumScale \div 20) * RatioScale) \div (darker + LumScale \div 20)

\* rgb_to_luminance(*rgb)
luminance_of(rgb) == rgb_to_luminance(rgb[1], rgb[2], rgb[3])

\* the simulation left out
not_simulated(rgb, cb_type) == rgb

\* simulate_color_blindness(*rgb, cb_type)
simulate_of(rgb, cb_type) == simulate_color_blindness(rgb[1], rgb[2], rgb[3], cb_type)

\* the ratio of two luminances
contrast_of(lum1, lum2) == ratio_of(max(lum1, lum2), min(lum1, lum2))

\* the result of a function of two decoded colours, or the ValueError that
\* hex_to_rgb raised
returned(rgb1, rgb2, ratio) ==
    IF rgb1.kind # "tuple" \/ rgb2.kind # "tuple"
    THEN [kind |-> "ValueError", val |-> 0]
    ELSE [kind |-> "float", val |-> ratio]

calculate_contrast_ratio(color1, color2) ==
    LET rgb1 == hex_to_rgb(color1)
        rgb2 == hex_to_rgb(color2)
    IN  returned(rgb1, rgb2, contrast_of(luminance_of(rgb1.val), luminance_of(rgb2.val)))

\* the deficiency type ignored: the ratio of normal vision
cb_type_ignored(color1, color2, cb_type) == calculate_contrast_ratio(color1, color2)

calculate_cb_contrast_ratio(color1, color2, cb_type) ==
    LET rgb1 == hex_to_rgb(color1)
        rgb2 == hex_to_rgb(color2)
    IN  returned(rgb1, rgb2,
                 contrast_of(luminance_of(simulate_of(rgb1.val, cb_type)),
                             luminance_of(simulate_of(rgb2.val, cb_type))))

\* strict comparisons: a ratio on a threshold falls into the band below
get_contrast_rating_strict(ratio) ==
    IF ratio > 7 * RatioScale THEN "AAA"
    ELSE IF ratio > (45 * RatioScale) \div 10 THEN "AA"
    ELSE IF ratio > 3 * RatioScale THEN "AA18"
    ELSE "Fail"

\* ratio in units of 1/RatioScale
get_contrast_rating(ratio) ==
    IF ratio >= 7 * RatioScale THEN "AAA"
    ELSE IF ratio >= (45 * RatioScale) \div 10 THEN "AA"
    ELSE IF ratio >= 3 * RatioScale THEN "AA18"
    ELSE "Fail"

(***************************************************************************)
(* Contrast matrix and accessible pairings.  The functions of the source   *)
(* read the module global COLORS; here the palette is the parameter        *)
(* colors, a sequence of <<hex code, name>> entries.                       *)
(***************************************************************************)
None == [kind |-> "None", val |-> 0]

\* the cells (i, j) of an n x n matrix in the order of the nested loops
index_pairs(n) ==
    Tuple([k \in 1..(n * n) |-> <<((k - 1) \div n) + 1, ((k - 1) % n) + 1>>], n * n)

\* the diagonal test looking one column to the left
entry_shifted(colors, i, j) ==
    IF i = j + 1 THEN None ELSE calculate_contrast_ratio(colors[i][1], colors[j][1])

\* only the cells above the diagonal computed
entry_upper(colors, i, j) ==
    IF i >= j THEN None ELSE calculate_contrast_ratio(colors[i][1], colors[j][1])

\* the value computed for cell (i, j)
entry(colors, i, j) ==
    IF i = j THEN None ELSE calculate_contrast_ratio(colors[i][1], colors[j][1])

matrix_rows(colors, n) ==
    Tuple([i \in 1..n |-> Tuple([j \in 1..n |-> entry(colors, i, j)], n)], n)

\* a ValueError raised by one of the calls leaves create_contrast_matrix
raised(rows) ==
    \E i \in 1..Len(rows) : \E j \in 1..Len(rows) : rows[i][j].kind = "ValueError"

\* a palette without a pair of colours refused
matrix_or_refusal(rows) ==
    IF raised(rows) \/ Len(rows) < 2
    THEN [kind |-> "ValueError", val |-> <<>>]
    ELSE [kind |-> "list", val |-> rows]

matrix_or_error(rows) ==
    IF raised(rows)
    THEN [kind |-> "ValueError", val |-> <<>>]
    ELSE [kind |-> "list", val |-> rows]

create_contrast_matrix(colors) == matrix_or_error(matrix_rows(colors, Len(colors)))

\* the cells filled by a call of calculate_contrast_ratio, in call order, up
\* to and including the first call that raises
calls_until_raise(rows, cells) ==
    LET raising == {k \in 1..Len(cells) : rows[cells[k][1]][cells[k][2]].kind = "ValueError"}
    IN  IF raising = {}
        THEN cells
        ELSE SubSeq(cells, 1, CHOOSE k \in raising : \A m \in raising : k <= m)

ratio_calls(colors) ==
    calls_until_raise(matrix_rows(colors, Len(colors)),
                      SelectSeq(index_pairs(Len(colors)), LAMBDA p : p[1] # p[2]))

\* every pair of different indices enumerated, so each pair comes up twice
below_or_above(i, j) == i # j

\* if i < j: only the unique pairs
above_diagonal(i, j) == i < j

\* if rating in ['AA18', 'AA', 'AAA']
accessible(ratio) == get_contrast_rating(ratio) \in {"AA18", "AA", "AAA"}

\* the cells for which a record is appended, in the order of the nested loops
appended_cells(matrix, n) ==
    SelectSeq(index_pairs(n),
              LAMBDA p : above_diagonal(p[1], p[2]) /\ accessible(matrix[p[1]][p[2]].val))

\* the record appended for cell (i, j)
pairing_of(colors, ratio, i, j) ==
    [color1 |-> colors[i][1], name1 |-> colors[i][2],
     color2 |-> colors[j][1], name2 |-> colors[j][2],
     ratio |-> ratio, rating |-> get_contrast_rating(ratio)]

\* a sort that puts the later of two equal keys first
ranks_unstable(keys) ==
    Tuple([k \in 1..Len(keys) |->
              1 + Cardinality({m \in 1..Len(keys) :
                                  keys[m] > keys[k] \/ (keys[m] = keys[k] /\ m > k)})],
          Len(keys))

\* list.sort(key, reverse=True): the place of each element after a stable
\* sort by descending key, equal keys keeping their order
ranks(keys) ==
    Tuple([k \in 1..Len(keys) |->
              1 + Cardinality({m \in 1..Len(keys) :
                                  keys[m] > keys[k] \/ (keys[m] = keys[k] /\ m < k)})],
          Len(keys))

permuted(seq, places) ==
    Tuple([r \in 1..Len(seq) |-> seq[CHOOSE k \in 1..Len(seq) : places[k] = r]], Len(seq))

ratios_at(matrix, cells) ==
    Tuple([k \in 1..Len(cells) |-> matrix[cells[k][1]][cells[k][2]].val], Len(cells))

\* the appended cells in the order in which the sorted list holds their records
sorted_cells(matrix, cells) == permuted(cells, ranks(ratios_at(matrix, cells)))

records_of(colors, matrix, cells) ==
    Tuple([k \in 1..Len(cells) |->
              pairing_of(colors, matrix[cells[k][1]][cells[k][2]].val, cells[k][1], cells[k][2])],
          Len(cells))

\* the cell of the matrix from which each returned record was made
pairing_cells(matrix, colors) == sorted_cells(matrix, appended_cells(matrix, Len(colors)))

get_accessible_pairings(matrix, colors) ==
    records_of(colors, matrix, pairing_cells(matrix, colors))

\* the AA threshold 4.5 applied in place of 3.0
at_least_4_5(ratio) == ratio >= (45 * RatioScale) \div 10

\* ratio >= 3.0
at_least_3(ratio) == ratio >= 3 * RatioScale

\* the analysis record of one pairing, given its three simulated ratios
analysis_of(pairing, deuter_ratio, prota_ratio, trita_ratio) ==
    [color1 |-> pairing.color1, name1 |-> pairing.name1,
     color2 |-> pairing.color2, name2 |-> pairing.name2,
     normal_ratio |-> pairing.ratio, normal_rating |-> pairing.rating,
     deuteranopia_ratio |-> deuter_ratio, deuteranopia_pass |-> at_least_3(deuter_ratio),
     protanopia_ratio |-> prota_ratio, protanopia_pass |-> at_least_3(prota_ratio),
     tritanopia_ratio |-> trita_ratio, tritanopia_pass |-> at_least_3(trita_ratio),
     all_cb_pass |-> at_least_3(deuter_ratio) /\ at_least_3(prota_ratio)
                     /\ at_least_3(trita_ratio)]

cb_ratio(pairing, cb_type) ==
    calculate_cb_contrast_ratio(pairing.color1, pairing.color2, cb_type).val

cb_analysis(pairings) ==
    Tuple([k \in 1..Len(pairings) |->
              analysis_of(pairings[k], cb_ratio(pairings[k], "deuteranopia"),
                          cb_ratio(pairings[k], "protanopia"),
                          cb_ratio(pairings[k], "tritanopia"))],
          Len(pairings))

\* every pairing appended to the accessible list
appended_always(analysis) == TRUE

\* if all_pass
appended(analysis) == analysis.all_cb_pass

\* the positions of the pairings appended to cb_accessible
accessible_positions(analyses) ==
    SelectSeq(Tuple([k \in 1..Len(analyses) |-> k], Len(analyses)),
              LAMBDA k : appended(analyses[k]))

\* the selected pairings with their two colours exchanged
selected_swapped(pairings, positions) ==
    Tuple([m \in 1..Len(positions) |->
              [pairings[positions[m]] EXCEPT !.color1 = pairings[positions[m]].color2,
                                             !.color2 = pairings[positions[m]].color1]],
          Len(positions))

selected(pairings, positions) ==
    Tuple([m \in 1..Len(positions) |-> pairings[positions[m]]], Len(positions))

\* a colour of a pairing that hex_to_rgb does not decode
cb_raised(pairings) ==
    \E k \in 1..Len(pairings) :
        hex_to_rgb(pairings[k].color1).kind # "tuple" \/ hex_to_rgb(pairings[k].color2).kind # "tuple"

cb_returned(pairings, analyses) ==
    IF cb_raised(pairings)
    THEN [kind |-> "ValueError", cb_accessible |-> <<>>, cb_analysis |-> <<>>]
    ELSE [kind |-> "tuple",
          cb_accessible |-> selected(pairings, accessible_positions(analyses)),
          cb_analysis |-> analyses]

get_cb_accessible(pairings) == cb_returned(pairings, cb_analysis(pairings))

\* list.reverse() applied to the object itself
reversed_in_place(object) ==
    Tuple([k \in 1..Len(object) |-> object[Len(object) + 1 - k]], Len(object))

\* the value after the call of a list that the function was given (COLORS,
\* matrix, pairings): the functions only read these; every append and the
\* sort have a list created inside the function as their target
only_read(object) == object

\* the result of one stage of the analysis, run from the palette alone
stage(op, colors) ==
    CASE op = "create_contrast_matrix" -> create_contrast_matrix(colors)
      [] op = "get_accessible_pairings" ->
             get_accessible_pairings(create_contrast_matrix(colors).val, colors)
      [] op = "get_cb_accessible" ->
             get_cb_accessible(get_accessible_pairings(create_contrast_matrix(colors).val,
                                                       colors))

\* count / total * 100 formatted with :.1f, in tenths of a percent; the
\* quotient is never halfway between two tenths for a palette of fewer than
\* 32 colours
percent(count, total) == (2000 * count + total) \div (2 * total)

\* the summary statistics written into the report; the divisions raise
\* ZeroDivisionError before the file is opened
summary(total_pairs, normal_count, cb_count) ==
    IF total_pairs = 0
    THEN [kind |-> "ZeroDivisionError"]
    ELSE [kind |-> "None", total_pairs |-> total_pairs,
          normal_count |-> normal_count, cb_count |-> cb_count,
          normal_percent |-> percent(normal_count, total_pairs),
          cb_percent |-> percent(cb_count, total_pairs)]

report_of(pairings, cb, n) ==
    IF cb.kind = "ValueError"
    THEN [kind |-> "ValueError"]
    ELSE summary((n * (n - 1)) \div 2, Len(pairings), Len(cb.cb_accessible))

report_with(pairings, n) == report_of(pairings, get_cb_accessible(pairings), n)

generate_html_report(matrix, colors) ==
    report_with(get_accessible_pairings(matrix, colors), Len(colors))

\* s.upper() for a colour code
code_upper(s) ==
    [i \in 1..Len(s) |->
        IF \E k \in 11..16 : HexLower[k] = s[i]
        THEN HexUpper[CHOOSE k \in 11..16 : HexLower[k] = s[i]]
        ELSE s[i]]

\* the positions in cb_analysis of the analyses with all_cb_pass
passing(analyses) ==
    SelectSeq(Tuple([k \in 1..Len(analyses) |-> k], Len(analyses)),
              LAMBDA k : analyses[k].all_cb_pass)

\* if i < len([a for a in cb_analysis if a['all_cb_pass']]) - 1, where i
\* counts the entries of cb_analysis from 0
comma_after(i, count) == i < count - 1

\* the line of CONTRAST_PAIRS_CB_SAFE written for the analysis at position k
\* (from 1) of cb_analysis
cb_safe_line(analyses, k, count) ==
    [color1 |-> code_upper(lstrip(analyses[k].color1, {"#"})),
     color2 |-> code_upper(lstrip(analyses[k].color2, {"#"})),
     comma |-> comma_after(k - 1, count)]

cb_safe_lines(analyses, positions) ==
    Tuple([m \in 1..Len(positions) |-> cb_safe_line(analyses, positions[m], Len(positions))],
          Len(positions))

\* the lines of CONTRAST_PAIRS_CB_SAFE in the report; none when the report
\* raised before it was written
cb_safe_of(cb, report) ==
    IF report.kind # "None" THEN <<>>
    ELSE cb_safe_lines(cb.cb_analysis, passing(cb.cb_analysis))

\* os.path.join(output_dir, "VisionDeficient24ColorPalette_ContrastReport.html"),
\* output_dir defaulting to Documents/ArcGIS/Styles under the home directory
html_path_of(output_dir) ==
    <<IF output_dir = "None" THEN "~/Documents/ArcGIS/Styles" ELSE output_dir,
      "VisionDeficient24ColorPalette_ContrastReport.html">>

\* the dict without its success entry set
main_result_unset(html_path, matrix, pairings) ==
    [html_path |-> html_path, matrix |-> matrix, pairings |-> pairings, success |-> FALSE]

\* the dict returned by main
main_result(html_path, matrix, pairings) ==
    [html_path |-> html_path, matrix |-> matrix, pairings |-> pairings, success |-> TRUE]

(***************************************************************************)
(* Contrast checks of LayerAudit/BaselineAuditstoJSON.py                   *)
(***************************************************************************)
\* round(ratio, 2) in hundredths, from a ratio in units of 1/RatioScale
round_2(ratio) == (ratio + RatioScale \div 200) \div (RatioScale \div 100)

\* None where hex_to_rgb returned None or raised, otherwise the rounded
\* ratio; the channels are those of six hex digits
rounded_or_none(rgb1, rgb2) ==
    IF rgb1.kind # "tuple" \/ rgb2.kind # "tuple"
    THEN None
    ELSE [kind |-> "float",
          val |-> round_2(contrast_of(relative_luminance(rgb1.val),
                                      relative_luminance(rgb2.val)))]

contrast_ratio(color1_hex, color2_hex) ==
    rounded_or_none(audit_hex_to_rgb(color1_hex), audit_hex_to_rgb(color2_hex))

\* the dict appended for colors[i], colors[j]; ratio in hundredths
result_of(colors, i, j, ratio) ==
    [color1 |-> colors[i], color2 |-> colors[j], ratio |-> ratio,
     passes_3_1 |-> ratio >= 300, passes_4_5_1 |-> ratio >= 450]

\* the pairs i < j whose ratio is not None, in the order of the loops
checked_pairs(colors) ==
    SelectSeq(index_pairs(Len(colors)),
              LAMBDA p : p[1] < p[2] /\ contrast_ratio(colors[p[1]], colors[p[2]]).kind # "None")

results_of(colors, pairs) ==
    Tuple([k \in 1..Len(pairs) |->
              result_of(colors, pairs[k][1], pairs[k][2],
                        contrast_ratio(colors[pairs[k][1]], colors[pairs[k][2]]).val)],
          Len(pairs))

\* the function returns its list in every case
check_multi_color_contrast(colors) ==
    [kind |-> "list", val |-> results_of(colors, checked_pairs(colors))]

(***************************************************************************)
(* Initial status and row loop of LayerAudit/BaselineAuditstoJSON.py       *)
(***************************************************************************)
\* the one-character strings of a Python str, in lower case
UpperCase == "ABCDEFGHIJKLMNOPQRSTUVWXYZ"

LowerCase == "abcdefghijklmnopqrstuvwxyz"

char_lower(c) ==
    IF \E k \in 1..26 : SubSeq(UpperCase, k, k) = c
    THEN SubSeq(LowerCase, CHOOSE k \in 1..26 : SubSeq(UpperCase, k, k) = c,
                CHOOSE k \in 1..26 : SubSeq(UpperCase, k, k) = c)
    ELSE c

\* str(s).lower() as a tuple of characters
lower_chars(s) == Tuple([i \in 1..Len(s) |-> char_lower(SubSeq(s, i, i))], Len(s))

\* keyword in text, both as tuples of characters
occurs_in(keyword, text) ==
    \E i \in 1..(Len(text) - Len(keyword) + 1) :
        SubSeq(text, i, i + Len(keyword) - 1) = keyword

\* any(keyword in str(issue).lower() for keyword in keywords)
any_keyword(keywords, issue) ==
    \E k \in 1..Len(keywords) : occurs_in(lower_chars(keywords[k]), lower_chars(issue))

\* any(... for issue in issues)
any_issue(keywords, issues) == \E n \in 1..Len(issues) : any_keyword(keywords, issues[n])

critical_keywords ==
    <<"red/green", "single color", "lack halo", "cannot guarantee",
      "fails 3:1", "fails 4.5:1", "fail 3:1", "fail 4.5:1">>

passing_keywords == <<"meets 3:1", "meets 4.5:1", "pass 3:1", "pass 4.5:1">>

\* the three branches of determine_initial_status
status_of(has_critical, has_passing) ==
    IF has_critical THEN "needs-work"
    ELSE IF has_passing /\ ~has_critical THEN "needs-work"
    ELSE "needs-work"

\* determine_initial_status of LayerAudit/BaselineAuditstoJSON.py
determine_initial_status(color_issues, contrast_issues, label_issues, popup_issues) ==
    status_of(any_issue(critical_keywords,
                        color_issues \o contrast_issues \o label_issues \o popup_issues),
              any_issue(passing_keywords, color_issues \o contrast_issues \o label_issues))

RECURSIVE str_lower(_)
\* text.lower() for a short string
str_lower(text) ==
    IF text = "" THEN ""
    ELSE char_lower(SubSeq(text, 1, 1)) \o str_lower(SubSeq(text, 2, Len(text)))

\* text.strip(): without its leading and trailing blanks
strip(text) ==
    LET first == CHOOSE i \in 1..(Len(text) + 1) :
                     /\ \A j \in 1..(i - 1) : SubSeq(text, j, j) = " "
                     /\ i = Len(text) + 1 \/ SubSeq(text, i, i) # " "
        last_ == CHOOSE i \in 0..Len(text) :
                     /\ \A j \in (i + 1)..Len(text) : SubSeq(text, j, j) = " "
                     /\ i = 0 \/ SubSeq(text, i, i) # " "
    IN  SubSeq(text, first, last_)

\* clean_text: the stripped text, and '' for 'nan', 'none' and ''
clean_text(text) ==
    IF str_lower(strip(text)) \in {"nan", "none", ""} THEN "" ELSE strip(text)

\* stats before the row loop (the counters that the status takes part in, and
\* the counts of rows with issues)
stats_initial ==
    [total |-> 0, pass |-> 0, needs_work |-> 0, with_color_issues |-> 0,
     with_contrast_issues |-> 0, with_label_issues |-> 0, with_popup_issues |-> 0,
     critical_issues |-> 0]

\* critical_keywords of the row loop
loop_critical_keywords ==
    <<"red/green", "single color", "lack halo", "cannot guarantee", "fails">>

\* 1 if flag else 0
one_if(flag) == IF flag THEN 1 ELSE 0

\* the row loop: stats after a row that is counted
counted(stats, row, initial_status) ==
    [stats EXCEPT
       !.total = @ + 1,
       !.critical_issues = @ + one_if(any_issue(loop_critical_keywords,
                                                row.color_issues \o row.contrast_issues
                                                  \o row.label_issues)),
       !.with_color_issues = @ + one_if(Len(row.color_issues) > 0),
       !.with_contrast_issues = @ + one_if(Len(row.contrast_issues) > 0),
       !.with_label_issues = @ + one_if(Len(row.label_issues) > 0),
       !.with_popup_issues = @ + one_if(Len(row.popup_issues) > 0),
       !.pass = @ + one_if(initial_status = "pass"),
       !.needs_work = @ + one_if(initial_status # "pass")]

\* the row loop: a row without map name or layer name is not counted
row_skipped(row) == clean_text(row.map_name) = "" \/ clean_text(row.layer_name) = ""

\* "{0}|||{1}".format(map_name, layer_name)
key_of(row) == clean_text(row.map_name) \o "|||" \o clean_text(row.layer_name)

\* baseline_data[key] = {...}: the entry of the key is set or replaced
assigned(baseline_data, key, status) ==
    [k \in DOMAIN baseline_data \cup {key} |->
        IF k = key THEN [status |-> status] ELSE baseline_data[k]]

\* the percentages of the summary report; the divisions raise
\* ZeroDivisionError when no row was counted
audit_summary(stats) ==
    IF stats.total = 0 THEN [kind |-> "ZeroDivisionError", pass |-> 0, needs_work |-> 0]
    ELSE [kind |-> "None", pass |-> percent(stats.pass, stats.total),
          needs_work |-> percent(stats.needs_work, stats.total)]

(***************************************************************************)
(* Layer extractors: BaselineAccessibilityAudit.py reads layer files,      *)
(* LayerAudit/OSMP_Baseline_Accessibility_Audit_Data_Extractor_For_ArcPro  *)
(* reads the layers of the active map (its functions carry the prefix      *)
(* map_).  A layer is the record of the attributes that the analysers read *)
(* through arcpy.  An attribute whose Python type varies is a tagged value *)
(* [kind, val]; the literals of the extractors ("Yes", "No", headers) are  *)
(* TLA+ strings, colour codes are character sequences.                     *)
(***************************************************************************)
PyNone == [kind |-> "None", flag |-> FALSE, num |-> 0, str |-> ""]

PyBool(b) == [kind |-> "bool", flag |-> b, num |-> 0, str |-> ""]

PyInt(n) == [kind |-> "int", flag |-> FALSE, num |-> n, str |-> ""]

PyStr(s) == [kind |-> "str", flag |-> FALSE, num |-> 0, str |-> s]

\* bool(v): None, False, 0 and the empty string are false, all else is true
truthy(v) ==
    CASE v.kind = "None" -> FALSE
      [] v.kind = "bool" -> v.flag
      [] v.kind = "int" -> v.num # 0
      [] v.kind = "str" -> v.str # ""
      [] OTHER -> TRUE

\* "Yes" if flag else "No"
yes_no(flag) == IF flag THEN "Yes" ELSE "No"

\* analyze_labels: the defaults of info
labels_default ==
    [labels_enabled |-> FALSE, font_name |-> "", font_size |-> "",
     font_bold |-> PyStr("Unknown"), font_color |-> <<>>,
     halo_enabled |-> PyStr("Unknown"), halo_color |-> <<>>, halo_size |-> "",
     label_notes |-> ""]

\* analyze_labels, font of the text symbol: the bold attribute decides when it
\* is set, else the weight (bold from 600)
font_bold_of(font_bold, bold_val, weight_val) ==
    IF bold_val.kind # "None" THEN PyStr(yes_no(truthy(bold_val)))
    ELSE IF weight_val.kind # "None" /\ font_bold.str = "Unknown"
         THEN PyStr(yes_no(weight_val.num >= 600))
    ELSE font_bold

\* analyze_labels, halo of the text symbol: a haloSymbol, else a positive
\* haloSize, else "No"
halo_of(info, ts) ==
    IF ts.haloSymbol THEN [info EXCEPT !.halo_enabled = PyStr("Yes")]
    ELSE IF ts.haloSize.kind # "None" /\ ts.haloSize.num > 0
         THEN [info EXCEPT !.halo_enabled = PyStr("Yes"),
                           !.halo_size = ToString(ts.haloSize.num)]
    ELSE IF info.halo_enabled.str = "Unknown"
         THEN [info EXCEPT !.halo_enabled = PyStr("No")]
    ELSE info

\* analyze_labels, the label class of the high-level API
labels_from_api(info, ts) ==
    IF ~ts.present THEN info
    ELSE halo_of(
           [info EXCEPT
              !.font_name = IF ts.font THEN "Arial" ELSE @,
              !.font_size = IF ts.font /\ ts.size.kind # "None"
                            THEN ToString(ts.size.num) ELSE @,
              !.font_bold = IF ts.font THEN font_bold_of(@, ts.bold, ts.weight) ELSE @,
              !.font_color = IF ts.rgb # <<>> THEN rgb_to_hex(ts.rgb) ELSE @],
           ts)

\* analyze_labels, bold of the CIM font: the weight, else the bold property,
\* else "No" (the font has no decoration and no bold family name)
cim_bold_of(font_bold, ts) ==
    IF font_bold.str # "Unknown" THEN font_bold
    ELSE IF ts.font /\ ts.weight.kind # "None" THEN PyStr(yes_no(ts.weight.num >= 600))
    ELSE IF ts.font /\ ts.bold.kind # "None" THEN PyStr(yes_no(truthy(ts.bold)))
    ELSE PyStr("No")

\* analyze_labels, halo of the CIM text symbol (it has no symbol layers)
cim_halo_of(info, ts) ==
    IF info.halo_enabled.str # "Unknown" THEN info
    ELSE IF ts.haloSymbol THEN [info EXCEPT !.halo_enabled = PyStr("Yes")]
    ELSE IF ts.haloSize.kind # "None" /\ ts.haloSize.num > 0
         THEN [info EXCEPT !.halo_enabled = PyStr("Yes"),
                           !.halo_size = ToString(ts.haloSize.num)]
    ELSE [info EXCEPT !.halo_enabled = PyStr("No")]

\* analyze_labels, the CIM fallback: taken while the font name, the font size,
\* the bold flag or the halo flag is still undetermined
labels_from_cim(info, ts) ==
    IF ~(info.font_name = "" \/ info.font_size = "" \/ info.font_bold.str = "Unknown"
           \/ info.halo_enabled.str = "Unknown")
    THEN info
    ELSE IF ~ts.present THEN info
    ELSE cim_halo_of(
           [info EXCEPT
              !.font_name = IF ts.font /\ @ = "" THEN "Arial" ELSE @,
              !.font_size = IF ts.font /\ truthy(ts.size) /\ @ = ""
                            THEN ToString(ts.size.num) ELSE @,
              !.font_bold = cim_bold_of(@, ts),
              !.font_color = IF ts.rgb # <<>> /\ @ = <<>>
                             THEN rgb_to_hex(ts.rgb) ELSE @],
           ts)

\* float(s) for the decimal string s of a whole number up to 100
float_of(s) == CHOOSE n \in 0..100 : ToString(n) = s

\* analyze_labels, the font size check: a note below 10pt
size_checked(info) ==
    [info EXCEPT
       !.label_notes = IF info.font_size # "" /\ float_of(info.font_size) < 10
                       THEN "WARNING: Font size below 10pt may be too small" ELSE @]

\* analyze_labels, the final defaults and the font size check
labels_final(info) ==
    size_checked([info EXCEPT
                    !.font_bold = IF @.str = "Unknown" THEN PyStr("No") ELSE @,
                    !.halo_enabled = IF @.str = "Unknown" THEN PyStr("No") ELSE @])

\* analyze_labels of BaselineAccessibilityAudit.py
analyze_labels(layer) ==
    labels_final(
      labels_from_cim(
        labels_from_api([labels_default EXCEPT !.labels_enabled = layer.showLabels],
                        layer.textSymbol),
        layer.cimTextSymbol))

\* f.name.lower() for the field names of the sample layers
field_lower(name) ==
    CASE name = "OBJECTID" -> "objectid"
      [] name = "Shape" -> "shape"
      [] name = "NAME" -> "name"
      [] OTHER -> name

\* analyze_popups: a field that a popup would show
popup_field(f) ==
    /\ f.type \notin {"OID", "OID64", "GEOMETRY", "BLOB", "RASTER"}
    /\ field_lower(f.name) \notin {"shape", "shape_length", "shape_area", "objectid", "fid"}

\* the names of a sequence of fields
names_of(fields) == [i \in 1..Len(fields) |-> fields[i].name]

RECURSIVE join(_, _)
\* sep.join(parts) for strings
join(sep, parts) ==
    IF parts = <<>> THEN ""
    ELSE IF Len(parts) = 1 THEN parts[1]
    ELSE parts[1] \o sep \o join(sep, Tail(parts))

RECURSIVE join_codes(_, _)
\* sep.join(parts) for character sequences
join_codes(sep, parts) ==
    IF parts = <<>> THEN <<>>
    ELSE IF Len(parts) = 1 THEN parts[1]
    ELSE parts[1] \o sep \o join_codes(sep, Tail(parts))

\* analyze_popups: the notes on the field list
field_notes(visible) ==
    IF Len(visible) > 0 THEN <<ToString(Len(visible)) \o " potential popup fields available">>
    ELSE <<"No standard attribute fields found">>

\* analyze_popups: the notes on the popupInfo of the CIM definition (it has
\* no description, title or media)
config_notes(popupInfo) ==
    IF popupInfo.present /\ Len(popupInfo.fieldInfos) > 0
    THEN <<ToString(Len(popupInfo.fieldInfos)) \o " fields configured in popup">>
    ELSE <<>>

\* analyze_popups: showPopups when the layer has it, then popupsEnabled of the
\* popupInfo when it is set
popup_enabled_of(layer) ==
    IF layer.popupInfo.present /\ layer.popupInfo.popupsEnabled.kind # "None"
    THEN PyStr(yes_no(truthy(layer.popupInfo.popupsEnabled)))
    ELSE IF layer.showPopups.kind # "None" THEN PyStr(yes_no(truthy(layer.showPopups)))
    ELSE PyStr("Not stored in layer file")

\* analyze_popups: the final assessment
missing_notes(layer) ==
    IF ~layer.popupInfo.present /\ layer.showPopups.kind = "None"
    THEN <<"Popup config not found in layer file - check in map document">>
    ELSE <<>>

\* analyze_popups of BaselineAccessibilityAudit.py
analyze_popups(layer) ==
    [popup_enabled |-> popup_enabled_of(layer),
     popup_fields |-> IF layer.popupInfo.present /\ Len(layer.popupInfo.fieldInfos) > 0
                      THEN layer.popupInfo.fieldInfos
                      ELSE names_of(SelectSeq(layer.fields, popup_field)),
     popup_notes |-> join("; ", field_notes(SelectSeq(layer.fields, popup_field))
                                  \o config_notes(layer.popupInfo)
                                  \o missing_notes(layer))]

\* c.lower() for a colour code
code_lower(c) ==
    [i \in 1..Len(c) |->
        IF \E k \in 11..16 : HexUpper[k] = c[i]
        THEN HexLower[CHOOSE k \in 11..16 : HexUpper[k] = c[i]]
        ELSE c[i]]

\* s.startswith(prefix)
startswith(s, prefix) == Len(s) >= Len(prefix) /\ SubSeq(s, 1, Len(prefix)) = prefix

light_colors ==
    << <<"#", "f", "f", "f", "f", "f", "f">>, <<"#", "f", "f", "f", "f", "0", "0">>,
       <<"#", "0", "0", "f", "f", "f", "f">>, <<"#", "f", "f", "f", "f", "e", "0">> >>

\* estimate_contrast_issues: a colour that is light, or that starts as a
\* light colour does
is_light(c) ==
    \E k \in 1..Len(light_colors) :
        \/ code_lower(c) = light_colors[k]
        \/ startswith(code_lower(c), Slice(light_colors[k], 0, 4))

\* estimate_contrast_issues: the three heuristics, in the order of the source
issues_of(font_color, halo_enabled, colors, transparency) ==
    (IF font_color # <<>> /\ ~truthy(halo_enabled)
     THEN <<"Labels without halo - check contrast against varied backgrounds">>
     ELSE <<>>)
    \o (IF \E i \in 1..Len(colors) : is_light(colors[i])
        THEN <<"Light symbology color detected - check contrast vs map background">>
        ELSE <<>>)
    \o (IF transparency # "" /\ float_of(transparency) < 100
        THEN <<"Symbol transparency detected - may reduce contrast">>
        ELSE <<>>)

\* estimate_contrast_issues of BaselineAccessibilityAudit.py
estimate_contrast_issues(sym_info, label_info) ==
    join("; ", issues_of(label_info.font_color, label_info.halo_enabled,
                         sym_info.colors, sym_info.transparency))

\* "Feature" for a feature layer, "Raster" for a raster layer
layer_type(layer) ==
    IF layer.type = "feature" THEN "Feature"
    ELSE IF layer.type = "raster" THEN "Raster"
    ELSE "Layer"

\* the "Popup Enabled" cell
popup_cell(popup_enabled) ==
    IF truthy(popup_enabled) THEN "Yes"
    ELSE IF popup_enabled.kind = "str" /\ popup_enabled.str = "" THEN "Unknown"
    ELSE "No"

\* filter(None, parts): the parts that are not empty
filter_none(parts) == SelectSeq(parts, LAMBDA p : p # "")

\* the cells from "Data Source" to "Extraction Notes", which the rows of both
\* extractors share
cells(layer, sym_info, label_info, popup_info, contrast_issues) ==
    <<layer.dataSource,
      sym_info.symbol_type,
      join_codes(<<",", " ">>, Slice(sym_info.colors, 0, 10)),
      yes_no(sym_info.uses_multiple_colors),
      sym_info.color_notes,
      join(", ", sym_info.line_widths),
      sym_info.transparency,
      contrast_issues,
      yes_no(label_info.labels_enabled),
      label_info.font_name,
      label_info.font_size,
      yes_no(truthy(label_info.font_bold)),
      label_info.font_color,
      yes_no(truthy(label_info.halo_enabled)),
      label_info.halo_color,
      label_info.halo_size,
      label_info.label_notes,
      popup_cell(popup_info.popup_enabled),
      Len(popup_info.popup_fields),
      join(", ", Slice(popup_info.popup_fields, 0, 10)),
      layer.minScale,
      layer.maxScale,
      join("; ", filter_none(<<sym_info.sym_notes, popup_info.popup_notes>>))>>

\* process_layer_file: the row of a layer
layer_row(relative_path, file_name, layer) ==
    <<relative_path, file_name, layer.name, layer_type(layer)>>
    \o cells(layer, layer.sym_info, analyze_labels(layer), analyze_popups(layer),
             estimate_contrast_issues(layer.sym_info, analyze_labels(layer)))

\* n empty cells
blanks(n) == [i \in 1..n |-> ""]

\* process_layer_file: the row of a layer whose processing raised; what
\* raises in the sample is the name of the layer, read for the log, so that
\* getattr(layer, "name", "UNKNOWN") yields its default
layer_error_row(relative_path, file_name, layer) ==
    <<relative_path, file_name, "UNKNOWN", "", "ERROR">> \o blanks(20)
    \o <<"Error during extraction: " \o layer.error>>

\* process_layer_file: the row of a file that could not be loaded
file_error_row(relative_path, file_name, error) ==
    <<relative_path, file_name, "FILE_ERROR", "", "ERROR">> \o blanks(20)
    \o <<"Error loading layer file: " \o error>>

\* process_layer_file: group layers and layers that are neither feature nor
\* raster layers are skipped
skipped(layer) == layer.type \notin {"feature", "raster"}

RECURSIVE layer_rows(_, _, _)
\* process_layer_file: the loop over the layers of the file
layer_rows(relative_path, file_name, layers) ==
    IF layers = <<>> THEN <<>>
    ELSE (IF skipped(layers[1]) THEN <<>>
          ELSE IF layers[1].error # "" THEN <<layer_error_row(relative_path, file_name, layers[1])>>
          ELSE <<layer_row(relative_path, file_name, layers[1])>>)
         \o layer_rows(relative_path, file_name, Tail(layers))

\* os.path.basename of a path held as its components
basename(path) == path[Len(path)]

\* process_layer_file of BaselineAccessibilityAudit.py
process_layer_file(file, relative_path) ==
    IF file.error # "" THEN <<file_error_row(relative_path, basename(file.path), file.error)>>
    ELSE layer_rows(relative_path, basename(file.path), file.layers)

\* headers of extract_batch_baseline_data
headers ==
    <<"Folder Path", "Layer File", "Layer Name", "Layer Type", "Data Source",
      "Symbology Type", "Colors Used (first 10)", "Uses Multiple Colors",
      "Color Notes", "Line Widths", "Transparency",
      "Estimated Contrast Issues",
      "Labels Enabled", "Font Name", "Font Size", "Font Bold", "Font Color",
      "Halo Enabled", "Halo Color", "Halo Size", "Label Issues",
      "Popup Enabled", "Popup Fields Count", "Popup Fields (sample)",
      "Min Scale", "Max Scale", "Extraction Notes">>

\* os.path.relpath(os.path.dirname(layer_file), LAYER_FILES_ROOT), "." read
\* as "Root", for a path held as its components below the root
relative_path_of(path) ==
    IF Len(path) = 1 THEN "Root" ELSE join("/", SubSeq(path, 1, Len(path) - 1))

RECURSIVE all_rows(_)
\* extract_batch_baseline_data: the loop over the layer files
all_rows(layer_files) ==
    IF layer_files = <<>> THEN <<>>
    ELSE process_layer_file(layer_files[1], relative_path_of(layer_files[1].path))
         \o all_rows(Tail(layer_files))

\* extract_batch_baseline_data: the lines of the CSV file, or no file when
\* there are no layer files
batch_csv(layer_files) ==
    IF Len(layer_files) = 0 THEN <<>> ELSE <<headers>> \o all_rows(layer_files)

\* analyze_labels of the map extractor, the label class of the high-level
\* API: bold and halo are booleans
map_labels_from_api(info, ts) ==
    IF ~ts.present THEN info
    ELSE [info EXCEPT
            !.font_name = IF ts.font THEN "Arial" ELSE @,
            !.font_size = IF ts.font /\ ts.size.kind # "None"
                          THEN ToString(ts.size.num) ELSE @,
            !.font_bold = IF ts.font THEN PyBool(truthy(ts.bold)) ELSE @,
            !.font_color = IF ts.rgb # <<>> THEN rgb_to_hex(ts.rgb) ELSE @,
            !.halo_enabled = IF ts.haloSymbol THEN PyBool(TRUE) ELSE @]

\* analyze_labels of the map extractor, the CIM fallback: taken while the font
\* name or the font size is empty (the font has no boolean style)
map_labels_from_cim(info, ts) ==
    IF ~(info.font_name = "" \/ info.font_size = "") THEN info
    ELSE IF ~ts.present THEN info
    ELSE [info EXCEPT
            !.font_name = IF ts.font THEN "Arial" ELSE @,
            !.font_size = IF ts.font /\ truthy(ts.size) THEN ToString(ts.size.num) ELSE @,
            !.font_color = IF ts.rgb # <<>> THEN rgb_to_hex(ts.rgb) ELSE @,
            !.halo_enabled = IF ts.haloSymbol THEN PyBool(TRUE) ELSE @]

\* analyze_labels of the map extractor
map_analyze_labels(layer) ==
    size_checked(
      map_labels_from_cim(
        map_labels_from_api([labels_default EXCEPT !.labels_enabled = layer.showLabels,
                                                   !.font_bold = PyBool(FALSE),
                                                   !.halo_enabled = PyBool(FALSE)],
                            layer.textSymbol),
        layer.cimTextSymbol))

\* a field that the map extractor lists for popups
map_popup_field(f) ==
    /\ f.type \notin {"OID", "OID64"}
    /\ field_lower(f.name) \notin {"shape", "shape_length", "shape_area"}

RECURSIVE extended(_, _)
\* the list with every name of more appended that it does not hold yet
extended(list, more) ==
    IF more = <<>> THEN list
    ELSE extended(IF \E i \in 1..Len(list) : list[i] = more[1]
                  THEN list ELSE Append(list, more[1]),
                  Tail(more))

\* analyze_popups of the map extractor: popup_enabled is "" or a boolean
map_analyze_popups(layer) ==
    [popup_enabled |-> IF layer.showPopups.kind # "None"
                       THEN PyBool(truthy(layer.showPopups)) ELSE PyStr(""),
     popup_fields |-> extended(names_of(SelectSeq(layer.fields, map_popup_field)),
                               IF layer.popupInfo.present
                               THEN layer.popupInfo.fieldInfos ELSE <<>>),
     popup_notes |-> IF layer.showPopups.kind = "None"
                          /\ extended(names_of(SelectSeq(layer.fields, map_popup_field)),
                                      IF layer.popupInfo.present
                                      THEN layer.popupInfo.fieldInfos ELSE <<>>) = <<>>
                     THEN "Popup information not fully accessible programmatically - please verify in Map Properties"
                     ELSE ""]

\* estimate_contrast_issues of the map extractor
map_estimate_contrast_issues(sym_info, label_info) ==
    join("; ", issues_of(label_info.font_color, label_info.halo_enabled,
                         sym_info.colors, sym_info.transparency))

\* extract_baseline_data: the row of a layer
map_row(map_name, layer) ==
    <<map_name, layer.name, layer_type(layer)>>
    \o cells(layer, layer.sym_info, map_analyze_labels(layer), map_analyze_popups(layer),
             map_estimate_contrast_issues(layer.sym_info, map_analyze_labels(layer)))

\* extract_baseline_data: the row of a layer whose processing raised; its
\* last but one cell is the date of the run
map_error_row(map_name, layer, today) ==
    <<map_name, "UNKNOWN", "", "ERROR">> \o blanks(21)
    \o <<today, "Error during extraction: " \o layer.error>>

\* headers of extract_baseline_data
map_headers ==
    <<"Map Name", "Layer Name", "Layer Type", "Data Source",
      "Symbology Type", "Colors Used (first 10)", "Uses Multiple Colors",
      "Color Notes", "Line Widths", "Transparency",
      "Estimated Contrast Issues",
      "Labels Enabled", "Font Name", "Font Size", "Font Bold", "Font Color",
      "Halo Enabled", "Halo Color", "Halo Size", "Label Issues",
      "Popup Enabled", "Popup Fields Count", "Popup Fields (sample)",
      "Min Scale", "Max Scale", "Extraction Notes">>

RECURSIVE map_rows(_, _, _)
\* extract_baseline_data: the loop over the layers of the map
map_rows(map_name, layers, today) ==
    IF layers = <<>> THEN <<>>
    ELSE (IF skipped(layers[1]) THEN <<>>
          ELSE IF layers[1].error # "" THEN <<map_error_row(map_name, layers[1], today)>>
          ELSE <<map_row(map_name, layers[1])>>)
         \o map_rows(map_name, Tail(layers), today)

\* extract_baseline_data: the lines of the CSV file
map_csv(map_name, layers, today) == <<map_headers>> \o map_rows(map_name, layers, today)

(***************************************************************************)
(* Inputs                                                                  *)
(***************************************************************************)
MaxHexLen == 7

HexAlphabet == {"#", "0", "1", "F", "g"}

\* strings with a sign, blanks, a 0x prefix, underscores, two '#', lowercase
\* digits, and the decimal digits
ExtraHexStrings ==
    { <<"+", "F", "+", "F", "+", "F">>,
      <<"-", "F", "-", "F", "-", "F">>,
      <<" ", "1", " ", "1", " ", "1">>,
      <<"0", "x", "0", "x", "0", "x">>,
      <<"1", "_", "2", "_", "3", "_">>,
      <<"#", "#", "0", "0", "0", "0", "0", "1">>,
      <<"#", "1", "2", "3", "4", "5">>,
      <<"#", "1", "2", "3", "4", "5", "6", "7">>,
      <<"#", "a", "b", "c", "d", "e", "f">>,
      <<"#", "8", "9", "A", "B", "C", "D">> }

\* every string over HexAlphabet of length at most MaxHexLen, and the extras
HexStrings == UNION {[1..k -> HexAlphabet] : k \in 0..MaxHexLen} \cup ExtraHexStrings

NumLevels == 5

\* evenly spaced channel values and a few small and mid-range ones
ChannelSamples == {(i * 255) \div NumLevels : i \in 0..NumLevels} \cup {1, 3, 100}

\* the three deficiency types and one that the simulator does not know
SimTypes == CB_TYPES \cup {"achromatopsia"}

PaletteHex == {COLORS[i][1] : i \in 1..Len(COLORS)}

\* spellings outside the palette: no '#', lowercase, near-black, and malformed
ExtraColors ==
    { <<"0", "0", "0", "0", "0", "0">>,
      <<"#", "f", "f", "f", "f", "f", "f">>,
      <<"#", "0", "0", "0", "0", "0", "1">>,
      <<"#", "0", "1", "0", "1", "0", "1">>,
      <<"#", "1", "2", "3", "4", "5">>,
      <<"#", "0", "0", "0", "0", "0", "g">> }

SampleColors == PaletteHex \cup ExtraColors

MaxPalette == 3

\* Hot Chile, Kelly Green and White
PaletteEntries == {COLORS[18], COLORS[21], COLORS[26]}

\* the palette of the source, palettes with a code that is no hex number or
\* that lacks its last digit, one where black and white each occur twice,
\* and one where both the lowest and the highest ratio occur twice
ExtraPalettes ==
    { COLORS,
      <<COLORS[25], <<<<"#", "0", "0", "0", "0", "0", "g">>, "Bad">>, COLORS[26]>>,
      <<<<<<"#", "0", "0", "0", "0", "0", "g">>, "Bad">>>>,
      <<COLORS[18], <<<<"#", "1", "2", "3", "4", "5">>, "Short">>, COLORS[26]>>,
      <<COLORS[25], COLORS[26], COLORS[25], COLORS[26]>>,
      <<COLORS[18], COLORS[26], COLORS[25], COLORS[26]>> }

\* every palette of at most MaxPalette entries, repetitions allowed, and the extras
Palettes == UNION {[1..k -> PaletteEntries] : k \in 0..MaxPalette} \cup ExtraPalettes

\* the channel values of the simulator and the two on either side of the
\* threshold 0.03928 * 255
LuminanceSamples == ChannelSamples \cup {10, 11}

\* output_dir left out, or a directory given by the caller
OutputDirs == {"None", "reports"}

MaxRatio == 22

\* ratios in units of 1/RatioScale
RatioSamples == 0..(MaxRatio * RatioScale)

\* a layer without label class, and the text symbols of the high-level API:
\* with or without font (8pt or 12pt; bold set, unset or given by the
\* weight), colour, halo symbol and halo size
NoTextSymbol ==
    [present |-> FALSE, font |-> FALSE, size |-> PyNone, bold |-> PyNone, weight |-> PyNone,
     rgb |-> <<>>, haloSymbol |-> FALSE, haloSize |-> PyNone]

TextSymbols ==
    {NoTextSymbol} \cup
    {ts \in [present : {TRUE}, font : BOOLEAN, size : {PyNone, PyInt(8), PyInt(12)},
             bold : {PyNone, PyBool(TRUE), PyBool(FALSE)},
             weight : {PyNone, PyInt(400), PyInt(700)},
             rgb : {<<>>, <<255, 0, 0>>},
             haloSymbol : BOOLEAN, haloSize : {PyNone, PyInt(0), PyInt(2)}] :
        /\ ts.font => ts.size # PyNone
        /\ ~ts.font => ts.size = PyNone /\ ts.bold = PyNone /\ ts.weight = PyNone
        /\ ts.haloSymbol => ts.haloSize = PyNone}

\* the text symbols of the CIM definition
CimTextSymbols ==
    {NoTextSymbol} \cup
    {ts \in [present : {TRUE}, font : BOOLEAN, size : {PyNone, PyInt(12)},
             bold : {PyNone, PyBool(TRUE)}, weight : {PyNone, PyInt(700)},
             rgb : {<<>>, <<0, 0, 1>>},
             haloSymbol : BOOLEAN, haloSize : {PyNone, PyInt(2)}] :
        /\ ts.font => ts.size # PyNone
        /\ ~ts.font => ts.size = PyNone /\ ts.bold = PyNone /\ ts.weight = PyNone
        /\ ts.haloSymbol => ts.haloSize = PyNone}

NoPopupInfo == [present |-> FALSE, popupsEnabled |-> PyNone, fieldInfos |-> <<>>]

PopupInfos ==
    {NoPopupInfo} \cup
    [present : {TRUE}, popupsEnabled : {PyNone, PyBool(TRUE), PyBool(FALSE)},
     fieldInfos : {<<>>, <<"NAME", "STATUS">>}]

FieldLists ==
    { <<>>,
      <<[name |-> "OBJECTID", type |-> "OID"], [name |-> "Shape", type |-> "Geometry"],
        [name |-> "NAME", type |-> "String"]>> }

\* results of analyze_symbology, which is not modelled: no colour, a light
\* colour in upper case, a dark one, and the transparency unset, 50 or 100
SymInfos ==
    [symbol_type : {"SimpleRenderer"},
     colors : {<<>>, << <<"#", "F", "F", "F", "F", "0", "0">> >>,
               << <<"#", "5", "6", "0", "1", "3", "3">>, <<"#", "0", "0", "f", "f", "0", "0">> >>},
     uses_multiple_colors : {FALSE}, color_notes : {""}, line_widths : {<<"1.0", "2.5">>},
     transparency : {"", "50", "100"}, sym_notes : {"", "Error analyzing symbology: renderer"}]

Layer ==
    [name |-> "Trails", type |-> "feature", dataSource |-> "osmp.gdb/Trails",
     showLabels |-> TRUE, textSymbol |-> NoTextSymbol, cimTextSymbol |-> NoTextSymbol,
     showPopups |-> PyNone, popupInfo |-> NoPopupInfo, fields |-> <<>>,
     sym_info |-> CHOOSE s \in SymInfos : s.colors = <<>> /\ s.transparency = "" /\ s.sym_notes = "",
     minScale |-> "0.0", maxScale |-> "0.0", error |-> ""]

\* red labels without halo, from the high-level API
Labelled ==
    [Layer EXCEPT !.textSymbol =
        [present |-> TRUE, font |-> TRUE, size |-> PyInt(12), bold |-> PyBool(FALSE),
         weight |-> PyNone, rgb |-> <<255, 0, 0>>, haloSymbol |-> FALSE, haloSize |-> PyNone]]

\* the sample layers: every pair of text symbols; every popup setting; every
\* symbology for two label settings; a group layer, a table, a raster layer
\* and a layer on which an arcpy call raises
Layers ==
    {[Layer EXCEPT !.textSymbol = a, !.cimTextSymbol = c] : a \in TextSymbols, c \in CimTextSymbols}
    \cup {[Labelled EXCEPT !.showPopups = s, !.popupInfo = p, !.fields = f, !.showLabels = FALSE] :
            s \in {PyNone, PyBool(TRUE), PyBool(FALSE)}, p \in PopupInfos, f \in FieldLists}
    \cup {[l EXCEPT !.sym_info = s] : l \in {Layer, Labelled}, s \in SymInfos}
    \cup {[Layer EXCEPT !.type = t] : t \in {"group", "table", "raster"}}
    \cup {[Layer EXCEPT !.error = "'NoneType' object has no attribute 'name'"]}

LayerFile(path, layers) == [path |-> path, error |-> "", layers |-> layers]

\* a layer file per sample layer; a file that arcpy cannot load, an empty
\* file, and a file in the root folder that holds a group layer, a layer, and
\* a layer whose processing raises
LayerFiles ==
    {LayerFile(<<"Trails", "trails.lyrx">>, <<l>>) : l \in Layers}
    \cup {[path |-> <<"Trails", "old", "closed.lyr">>, error |-> "Invalid layer file", layers |-> <<>>],
          LayerFile(<<"empty.lyrx">>, <<>>),
          LayerFile(<<"roads.lyr">>,
                    <<[Layer EXCEPT !.type = "group"], Labelled,
                      [Layer EXCEPT !.error = "'NoneType' object has no attribute 'name'"]>>)}

\* what find_layer_files returned: one file, none, or two
FileLists ==
    {<<f>> : f \in LayerFiles}
    \cup {<<>>,
          <<LayerFile(<<"Trails", "trails.lyrx">>, <<Labelled>>),
            [path |-> <<"Trails", "old", "closed.lyr">>, error |-> "Invalid layer file", layers |-> <<>>]>>}

\* the active map of the map extractor: the layers of a sample file
Maps == {[name |-> "Trails Map", layers |-> f.layers] : f \in {f \in LayerFiles : f.error = ""}}

NoMap == [name |-> "", layers |-> <<>>]

\* datetime.now().strftime("%Y-%m-%d") on the day of the run
Days == {"2026-01-05"}

MaxRows == 3

\* rows of the combined CSV with the issue lists that detect_color_issues,
\* detect_contrast_issues, detect_label_issues and detect_popup_issues (not
\* modelled) return for them: a layer of several colours that meet 3:1, a
\* layer of a single colour, a layer whose colour codes were not detected, a
\* layer with two colours that fail 3:1 and labels without halo, and a row
\* without map name
AuditRows ==
    { [map_name |-> "Trails Map", layer_name |-> "Trails",
       color_issues |-> <<"Multiple colors with minimum 4.54:1 contrast (meets 3:1 for graphics)">>,
       contrast_issues |-> <<"Multi-color contrast measured between symbols - still verify against map background">>,
       label_issues |-> <<>>, popup_issues |-> <<>>],
      [map_name |-> "Trails Map", layer_name |-> " Closures ",
       color_issues |-> <<"Single color symbology - CANNOT GUARANTEE 3:1 contrast ratio (manual verification required)">>,
       contrast_issues |-> <<"Manual contrast measurement required against map background (WCAG 2.1 AA: 3:1 for graphics, 4.5:1 for text)">>,
       label_issues |-> <<>>,
       popup_issues |-> <<"Popup configuration unknown - manual verification required">>],
      [map_name |-> "Trails Map", layer_name |-> "Trailheads",
       color_issues |-> <<"Multiple colors declared but hex codes not detected - verify distinguishability">>,
       contrast_issues |-> <<"Manual contrast measurement required against map background (WCAG 2.1 AA: 3:1 for graphics, 4.5:1 for text)">>,
       label_issues |-> <<"Font size 11.0pt is below 12pt recommended for better readability">>,
       popup_issues |-> <<>>],
      [map_name |-> "Trails Map", layer_name |-> "Trails",
       color_issues |-> <<"Colors #ff0000 and #00ff00 have 2.91:1 contrast (FAILS 3:1 minimum for graphics)">>,
       contrast_issues |-> <<"Multi-color contrast measured between symbols - still verify against map background">>,
       label_issues |-> <<"Labels lack halo - CRITICAL for contrast over varied backgrounds">>,
       popup_issues |-> <<"Review popup HTML for: alt text on images, color contrast, semantic structure">>],
      [map_name |-> "NaN", layer_name |-> "Trails",
       color_issues |-> <<>>, contrast_issues |-> <<>>, label_issues |-> <<>>,
       popup_issues |-> <<>>] }

\* the rows of the combined CSV: at most MaxRows rows
RowLists == UNION {[1..n -> AuditRows] : n \in 0..MaxRows}

\* every combination of the issue lists of the sample rows
IssueCombinations ==
    {<<a.color_issues, b.contrast_issues, c.label_issues, d.popup_issues>> :
        a \in AuditRows, b \in AuditRows, c \in AuditRows, d \in AuditRows}

(***************************************************************************)
(* State machine: the arguments of the call under analysis are drawn in    *)
(* the initial state; an action applies one function to them and records   *)
(* the call in last.  The functions of the palette analysis are chained    *)
(* as main and generate_html_report chain them: each takes the value that  *)
(* the call before it returned.                                            *)
(***************************************************************************)
VARIABLES input, last

vars == <<input, last>>

NoCall == [op |-> "none", arg |-> <<>>, ret |-> <<>>]

InitHex == input \in [hex_color : HexStrings] /\ last = NoCall

InitSim ==
    /\ input \in [r : ChannelSamples, g : ChannelSamples, b : ChannelSamples, cb_type : SimTypes]
    /\ last = NoCall

InitContrast == input \in [color1 : SampleColors, color2 : SampleColors] /\ last = NoCall

InitRating == input \in [ratio : RatioSamples] /\ last = NoCall

InitPalette == input \in [COLORS : Palettes] /\ last = NoCall

InitLuminance ==
    /\ input \in [r : LuminanceSamples, g : LuminanceSamples, b : LuminanceSamples]
    /\ last = NoCall

InitMain == input \in [COLORS : Palettes, output_dir : OutputDirs] /\ last = NoCall

HexToRgb ==
    /\ last.op = "none"
    /\ last' = [op |-> "hex_to_rgb", arg |-> input.hex_color,
                ret |-> hex_to_rgb(input.hex_color)]
    /\ UNCHANGED input

AuditHexToRgb ==
    /\ last.op = "none"
    /\ last' = [op |-> "audit_hex_to_rgb", arg |-> input.hex_color,
                ret |-> audit_hex_to_rgb(input.hex_color)]
    /\ UNCHANGED input

\* re-encode the triple that hex_to_rgb returned
RgbToHex ==
    /\ last.op = "hex_to_rgb"
    /\ last.ret.kind = "tuple"
    /\ last' = [op |-> "rgb_to_hex", arg |-> last.ret.val, ret |-> rgb_to_hex(last.ret.val)]
    /\ UNCHANGED input

Simulate ==
    /\ last.op = "none"
    /\ last' = [op |-> "simulate_color_blindness",
                arg |-> <<input.r, input.g, input.b, input.cb_type>>,
                ret |-> simulate_color_blindness(input.r, input.g, input.b, input.cb_type)]
    /\ UNCHANGED input

CalculateContrastRatio ==
    /\ last.op = "none"
    /\ last' = [op |-> "calculate_contrast_ratio", arg |-> <<input.color1, input.color2>>,
                ret |-> calculate_contrast_ratio(input.color1, input.color2)]
    /\ UNCHANGED input

CalculateCbContrastRatio ==
    /\ last.op = "none"
    /\ \E cb_type \in CB_TYPES :
           last' = [op |-> "calculate_cb_contrast_ratio",
                    arg |-> <<input.color1, input.color2, cb_type>>,
                    ret |-> calculate_cb_contrast_ratio(input.color1, input.color2, cb_type)]
    /\ UNCHANGED input

GetContrastRating ==
    /\ last.op = "none"
    /\ last' = [op |-> "get_contrast_rating", arg |-> input.ratio,
                ret |-> get_contrast_rating(input.ratio)]
    /\ UNCHANGED input

\* calls records the cells for which calculate_contrast_ratio was called;
\* after records the lists given to the function as they are when it returns
CreateContrastMatrix ==
    /\ last.op = "none"
    /\ last' = [op |-> "create_contrast_matrix", arg |-> <<>>,
                ret |-> create_contrast_matrix(input.COLORS),
                calls |-> ratio_calls(input.COLORS),
                after |-> only_read(input.COLORS)]
    /\ UNCHANGED input

\* cells records the matrix cell behind each returned record
GetAccessiblePairings ==
    /\ last.op = "create_contrast_matrix"
    /\ last.ret.kind = "list"
    /\ last' = [op |-> "get_accessible_pairings", arg |-> last.ret.val,
                ret |-> get_accessible_pairings(last.ret.val, input.COLORS),
                cells |-> pairing_cells(last.ret.val, input.COLORS),
                after |-> <<only_read(input.COLORS), only_read(last.ret.val)>>]
    /\ UNCHANGED input

\* positions records the place in the argument of each accessible pairing
GetCbAccessible ==
    /\ last.op = "get_accessible_pairings"
    /\ LET ret == get_cb_accessible(last.ret)
       IN  last' = [op |-> "get_cb_accessible", arg |-> last.ret, ret |-> ret,
                    positions |-> accessible_positions(ret.cb_analysis),
                    after |-> only_read(last.ret)]
    /\ UNCHANGED input

\* the analysis run a second time up to the stage reached; arg is the result
\* of the first run
RunAgain ==
    /\ last.op \in {"create_contrast_matrix", "get_accessible_pairings", "get_cb_accessible"}
    /\ last' = [op |-> "run_again", arg |-> <<last.op, last.ret>>,
                ret |-> stage(last.op, input.COLORS)]
    /\ UNCHANGED input

\* cb_safe holds the lines of CONTRAST_PAIRS_CB_SAFE in the file written,
\* flags the all_cb_pass entries of cb_analysis
GenerateHtmlReport ==
    /\ last.op = "create_contrast_matrix"
    /\ last.ret.kind = "list"
    /\ \E cb \in {get_cb_accessible(get_accessible_pairings(last.ret.val, input.COLORS))} :
          last' = [op |-> "generate_html_report", arg |-> last.ret.val,
                   ret |-> generate_html_report(last.ret.val, input.COLORS),
                   cb_safe |-> cb_safe_of(cb, generate_html_report(last.ret.val, input.COLORS)),
                   flags |-> Tuple([k \in 1..Len(cb.cb_analysis) |->
                                       cb.cb_analysis[k].all_cb_pass],
                                   Len(cb.cb_analysis))]
    /\ UNCHANGED input

\* the audit's check applied to the colour codes of the palette
CheckMultiColorContrast ==
    /\ last.op = "none"
    /\ LET colors == Tuple([k \in 1..Len(input.COLORS) |-> input.COLORS[k][1]],
                           Len(input.COLORS))
       IN  last' = [op |-> "check_multi_color_contrast", arg |-> colors,
                    ret |-> check_multi_color_contrast(colors)]
    /\ UNCHANGED input

RgbToLuminance ==
    /\ last.op = "none"
    /\ last' = [op |-> "rgb_to_luminance", arg |-> <<input.r, input.g, input.b>>,
                ret |-> rgb_to_luminance(input.r, input.g, input.b)]
    /\ UNCHANGED input

RelativeLuminance ==
    /\ last.op = "none"
    /\ last' = [op |-> "relative_luminance", arg |-> <<input.r, input.g, input.b>>,
                ret |-> relative_luminance(<<input.r, input.g, input.b>>)]
    /\ UNCHANGED input

\* main(output_dir, display_in_notebook), one action per step; pc is the step
\* to run next, steps the steps completed, files the files written; the
\* directory can be created and the file can be written and read
MainStart ==
    /\ last.op = "none"
    /\ last' = [op |-> "main", pc |-> "matrix", steps |-> <<>>, files |-> {},
                html_path |-> html_path_of(input.output_dir),
                matrix |-> <<>>, pairings |-> <<>>, cb |-> <<>>, ret |-> <<>>]
    /\ UNCHANGED input

MainMatrix ==
    /\ last.op = "main" /\ last.pc = "matrix"
    /\ LET matrix == create_contrast_matrix(input.COLORS)
       IN  last' = IF matrix.kind = "ValueError"
                   THEN [last EXCEPT !.pc = "raised", !.ret = "ValueError"]
                   ELSE [last EXCEPT !.pc = "pairings", !.matrix = matrix.val,
                                     !.steps = Append(@, "matrix")]
    /\ UNCHANGED input

MainPairings ==
    /\ last.op = "main" /\ last.pc = "pairings"
    /\ last' = [last EXCEPT !.pc = "cb", !.steps = Append(@, "pairings"),
                            !.pairings = get_accessible_pairings(last.matrix, input.COLORS)]
    /\ UNCHANGED input

MainCb ==
    /\ last.op = "main" /\ last.pc = "cb"
    /\ LET cb == get_cb_accessible(last.pairings)
       IN  last' = IF cb.kind = "ValueError"
                   THEN [last EXCEPT !.pc = "raised", !.ret = "ValueError"]
                   ELSE [last EXCEPT !.pc = "report", !.cb = cb, !.steps = Append(@, "cb")]
    /\ UNCHANGED input

MainReport ==
    /\ last.op = "main" /\ last.pc = "report"
    /\ LET report == generate_html_report(last.matrix, input.COLORS)
       IN  last' = IF report.kind # "None"
                   THEN [last EXCEPT !.pc = "raised", !.ret = report.kind]
                   ELSE [last EXCEPT !.pc = "display", !.steps = Append(@, "report"),
                                     !.files = @ \cup {last.html_path}]
    /\ UNCHANGED input

\* the report is read back when display_in_notebook is set; IPython may be
\* missing, which display_html_in_notebook answers with False
MainDisplay ==
    /\ last.op = "main" /\ last.pc = "display"
    /\ \E display_in_notebook \in BOOLEAN : \E ipython \in BOOLEAN :
           last' = IF display_in_notebook /\ last.html_path \notin last.files
                   THEN [last EXCEPT !.pc = "raised", !.ret = "FileNotFoundError"]
                   ELSE [last EXCEPT !.pc = "return",
                                     !.steps = Append(@, IF display_in_notebook /\ ipython
                                                         THEN "displayed" ELSE "not displayed")]
    /\ UNCHANGED input

MainReturn ==
    /\ last.op = "main" /\ last.pc = "return"
    /\ last' = [last EXCEPT !.pc = "returned",
                            !.ret = main_result(last.html_path, last.matrix, last.pairings)]
    /\ UNCHANGED input

\* the layer files that find_layer_files returned, or the active map
InitExtract ==
    /\ input \in [extractor : {"batch"}, layer_files : FileLists, map : {NoMap}]
                 \cup [extractor : {"map"}, layer_files : {<<>>}, map : Maps]
    /\ last = NoCall

\* the indices of the layers that get a row
RECURSIVE row_sources(_, _)
row_sources(layers, k) ==
    IF k > Len(layers) THEN <<>>
    ELSE (IF skipped(layers[k]) THEN <<>> ELSE <<k>>) \o row_sources(layers, k + 1)

AnalyzeLabels ==
    /\ input.extractor = "batch"
    /\ \E f \in 1..Len(input.layer_files) : \E k \in 1..Len(input.layer_files[f].layers) :
          last' = [op |-> "analyze_labels", arg |-> input.layer_files[f].layers[k],
                   ret |-> analyze_labels(input.layer_files[f].layers[k])]
    /\ UNCHANGED input

AnalyzePopups ==
    /\ input.extractor = "batch"
    /\ \E f \in 1..Len(input.layer_files) : \E k \in 1..Len(input.layer_files[f].layers) :
          last' = [op |-> "analyze_popups", arg |-> input.layer_files[f].layers[k],
                   ret |-> analyze_popups(input.layer_files[f].layers[k])]
    /\ UNCHANGED input

\* estimate_contrast_issues on the label info that analyze_labels returned;
\* issues is the list that the returned string joins
EstimateContrastIssues ==
    /\ last.op = "analyze_labels"
    /\ last' = [op |-> "estimate_contrast_issues", arg |-> <<last.arg.sym_info, last.ret>>,
                ret |-> estimate_contrast_issues(last.arg.sym_info, last.ret),
                issues |-> issues_of(last.ret.font_color, last.ret.halo_enabled,
                                     last.arg.sym_info.colors, last.arg.sym_info.transparency)]
    /\ UNCHANGED input

\* process_layer_file; sources[i] is the index of the layer of row i
ProcessLayerFile ==
    /\ input.extractor = "batch"
    /\ \E f \in 1..Len(input.layer_files) :
          last' = [op |-> "process_layer_file", arg |-> input.layer_files[f],
                   ret |-> process_layer_file(input.layer_files[f],
                                              relative_path_of(input.layer_files[f].path)),
                   sources |-> row_sources(input.layer_files[f].layers, 1)]
    /\ UNCHANGED input

\* extract_batch_baseline_data; csv holds the lines of the file it wrote
ExtractBatchBaselineData ==
    /\ input.extractor = "batch"
    /\ last' = [op |-> "extract_batch_baseline_data", arg |-> input.layer_files,
                ret |-> None, csv |-> batch_csv(input.layer_files)]
    /\ UNCHANGED input

MapAnalyzeLabels ==
    /\ input.extractor = "map"
    /\ \E k \in 1..Len(input.map.layers) :
          last' = [op |-> "map_analyze_labels", arg |-> input.map.layers[k],
                   ret |-> map_analyze_labels(input.map.layers[k])]
    /\ UNCHANGED input

MapAnalyzePopups ==
    /\ input.extractor = "map"
    /\ \E k \in 1..Len(input.map.layers) :
          last' = [op |-> "map_analyze_popups", arg |-> input.map.layers[k],
                   ret |-> map_analyze_popups(input.map.layers[k])]
    /\ UNCHANGED input

MapEstimateContrastIssues ==
    /\ last.op = "map_analyze_labels"
    /\ last' = [op |-> "map_estimate_contrast_issues", arg |-> <<last.arg.sym_info, last.ret>>,
                ret |-> map_estimate_contrast_issues(last.arg.sym_info, last.ret),
                issues |-> issues_of(last.ret.font_color, last.ret.halo_enabled,
                                     last.arg.sym_info.colors, last.arg.sym_info.transparency)]
    /\ UNCHANGED input

\* extract_baseline_data on the active map; csv holds the lines of the file
\* it wrote, sources[i] is the index of the layer of row i
ExtractBaselineData ==
    /\ input.extractor = "map"
    /\ \E today \in Days :
          last' = [op |-> "extract_baseline_data", arg |-> input.map,
                   ret |-> None, csv |-> map_csv(input.map.name, input.map.layers, today),
                   sources |-> row_sources(input.map.layers, 1)]
    /\ UNCHANGED input

\* the combined CSV of LayerAudit/BaselineAuditstoJSON.py
InitAudit == input \in [rows : RowLists] /\ last = NoCall

\* the script up to the row loop: stats and baseline_data are set up
AuditStart ==
    /\ last.op = "none"
    /\ last' = [op |-> "audit_to_json", pc |-> "loop", i |-> 0, stats |-> stats_initial,
                baseline_data |-> <<>>, summary |-> None]
    /\ UNCHANGED input

\* one iteration of the row loop
AuditRow ==
    /\ last.op = "audit_to_json"
    /\ last.pc = "loop"
    /\ last.i < Len(input.rows)
    /\ \E row \in {input.rows[last.i + 1]} :
          IF row_skipped(row)
          THEN last' = [last EXCEPT !.i = @ + 1]
          ELSE \E initial_status \in {determine_initial_status(row.color_issues, row.contrast_issues,
                                                               row.label_issues, row.popup_issues)} :
                  last' = [last EXCEPT
                             !.i = @ + 1,
                             !.stats = counted(@, row, initial_status),
                             !.baseline_data = assigned(@, key_of(row), initial_status)]
    /\ UNCHANGED input

\* the JSON file is saved and the summary report is printed
AuditSummary ==
    /\ last.op = "audit_to_json"
    /\ last.pc = "loop"
    /\ last.i = Len(input.rows)
    /\ last' = [last EXCEPT !.pc = "done", !.summary = audit_summary(last.stats)]
    /\ UNCHANGED input

NextHex == HexToRgb \/ AuditHexToRgb \/ RgbToHex

NextSim == Simulate

NextContrast == CalculateContrastRatio \/ CalculateCbContrastRatio

NextRating == GetContrastRating

NextPalette ==
    \/ CreateContrastMatrix
    \/ GetAccessiblePairings
    \/ GetCbAccessible
    \/ RunAgain
    \/ GenerateHtmlReport
    \/ CheckMultiColorContrast

NextLuminance == RgbToLuminance \/ RelativeLuminance

NextMain ==
    \/ MainStart
    \/ MainMatrix
    \/ MainPairings
    \/ MainCb
    \/ MainReport
    \/ MainDisplay
    \/ MainReturn

NextExtract ==
    \/ AnalyzeLabels
    \/ AnalyzePopups
    \/ EstimateContrastIssues
    \/ ProcessLayerFile
    \/ ExtractBatchBaselineData
    \/ MapAnalyzeLabels
    \/ MapAnalyzePopups
    \/ MapEstimateContrastIssues
    \/ ExtractBaselineData

NextAudit == AuditStart \/ AuditRow \/ AuditSummary

SpecHex == InitHex /\ [][NextHex]_vars

SpecSim == InitSim /\ [][NextSim]_vars

SpecContrast == InitContrast /\ [][NextContrast]_vars

SpecRating == InitRating /\ [][NextRating]_vars

SpecPalette == InitPalette /\ [][NextPalette]_vars

SpecLuminance == InitLuminance /\ [][NextLuminance]_vars

\* main has returned or raised
MainStopped == last.op = "main" /\ last.pc \in {"returned", "raised"}

\* main is sequential code: a step that can run does run.  This is
\* WF_vars(NextMain) written out, a step of NextMain being enabled exactly
\* while main has neither returned nor raised
SpecMain == InitMain /\ [][NextMain]_vars /\ ([]<>MainStopped \/ []<><<NextMain>>_vars)

SpecExtract == InitExtract /\ [][NextExtract]_vars

SpecAudit == InitAudit /\ [][NextAudit]_vars

(***************************************************************************)
(* Properties                                                              *)
(***************************************************************************)
\* a '#' or nothing, then exactly six hex digits
ValidHex(s) ==
    LET h == IF s # <<>> /\ s[1] = "#" THEN Tail(s) ELSE s
    IN  Len(h) = 6 /\ \A i \in 1..6 : IsHexDigit(h[i])

\* the lowercase '#rrggbb' form of a valid colour
CanonicalHex(s) ==
    LET h == IF s[1] = "#" THEN Tail(s) ELSE s
    IN  <<"#">> \o Tuple([i \in 1..6 |-> HexLower[HexVal(h[i]) + 1]], 6)

\* '#rrggbb' of a triple of channels in 0..255
EncodeHex(rgb) == <<"#">> \o format_02x(rgb[1]) \o format_02x(rgb[2]) \o format_02x(rgb[3])

\* the palette colour of that name
HexNamed(name) == COLORS[CHOOSE i \in 1..Len(COLORS) : COLORS[i][2] = name][1]

BothValid == ValidHex(last.arg[1]) /\ ValidHex(last.arg[2])

\* C1: for valid colours A and B, calculate_contrast_ratio(A, B) is exactly
\* calculate_contrast_ratio(B, A)
C1_Symmetric ==
    (last.op = "calculate_contrast_ratio" /\ BothValid)
        => last.ret = calculate_contrast_ratio(last.arg[2], last.arg[1])

\* two different palette colours, the darker one first, with a ratio above 1
C1_Witness ==
    /\ last.op = "calculate_contrast_ratio"
    /\ last.arg = <<HexNamed("Hot Chile"), HexNamed("Kelly Green")>>
    /\ last.ret.kind = "float"
    /\ last.ret.val > RatioScale

\* C2: for valid colours, calculate_contrast_ratio and, for every deficiency
\* type, calculate_cb_contrast_ratio return a ratio of at least 1.0
C2_AtLeastOne ==
    (last.op \in {"calculate_contrast_ratio", "calculate_cb_contrast_ratio"} /\ BothValid)
        => last.ret.kind = "float" /\ last.ret.val >= RatioScale

\* a simulated pair whose first colour is the darker one
C2_Witness ==
    /\ last.op = "calculate_cb_contrast_ratio"
    /\ BothValid
    /\ luminance_of(simulate_of(hex_to_rgb(last.arg[1]).val, last.arg[3]))
           < luminance_of(simulate_of(hex_to_rgb(last.arg[2]).val, last.arg[3]))
    /\ last.ret.val > RatioScale

\* C3: for a valid colour A, calculate_contrast_ratio(A, A) is 1.0
C3_SelfContrast ==
    (last.op = "calculate_contrast_ratio" /\ BothValid /\ last.arg[1] = last.arg[2])
        => last.ret = [kind |-> "float", val |-> RatioScale]

\* a palette colour that is neither black nor white, against itself
C3_Witness ==
    /\ last.op = "calculate_contrast_ratio"
    /\ last.arg = <<HexNamed("Kelly Green"), HexNamed("Kelly Green")>>
    /\ last.ret.val = RatioScale

\* C4: calculate_contrast_ratio("#000000", "#FFFFFF") is 21.0, and no pair of
\* valid colours has a ratio above 21.0
C4_BlackWhiteMaximum ==
    (last.op = "calculate_contrast_ratio" /\ BothValid)
        => /\ last.ret.val <= 21 * RatioScale
           /\ last.arg = <<HexNamed("Black"), HexNamed("White")>>
                  => last.ret.val = 21 * RatioScale

C4_Witness ==
    /\ last.op = "calculate_contrast_ratio"
    /\ last.arg = << <<"#", "0", "0", "0", "0", "0", "0">>, <<"#", "F", "F", "F", "F", "F", "F">> >>
    /\ last.ret = [kind |-> "float", val |-> 21 * RatioScale]

\* C5: get_contrast_rating gives every ratio exactly one rating, in bands that
\* include their lower bound: AAA from 7.0, AA from 4.5 to below 7.0, AA18 from
\* 3.0 to below 4.5, Fail below 3.0
C5_RatingBands ==
    last.op = "get_contrast_rating"
        => /\ last.ret \in {"AAA", "AA", "AA18", "Fail"}
           /\ last.ret = "AAA" <=> last.arg >= 7 * RatioScale
           /\ last.ret = "AA" <=> ((45 * RatioScale) \div 10 <= last.arg /\ last.arg < 7 * RatioScale)
           /\ last.ret = "AA18" <=> (3 * RatioScale <= last.arg /\ last.arg < (45 * RatioScale) \div 10)
           /\ last.ret = "Fail" <=> last.arg < 3 * RatioScale

\* the ratio 4.5, on the lower bound of its band
C5_Witness ==
    /\ last.op = "get_contrast_rating"
    /\ last.arg = (45 * RatioScale) \div 10
    /\ last.ret = "AA"

\* C6: hex_to_rgb returns no RGB triple for an input that, after one optional
\* leading '#', is not exactly six hex digits
C6_MalformedRejected ==
    (last.op \in {"hex_to_rgb", "audit_hex_to_rgb"} /\ ~ValidHex(last.arg))
        => last.ret.kind # "tuple"

\* C7: for a valid colour C every channel of hex_to_rgb(C) is in 0..255 and
\* rgb_to_hex(hex_to_rgb(C)) is the lowercase '#rrggbb' form of C
C7_RoundTrip ==
    (last.op = "rgb_to_hex" /\ ValidHex(input.hex_color))
        => /\ \A i \in 1..3 : last.arg[i] \in 0..255
           /\ last.ret = CanonicalHex(input.hex_color)

\* C8: for channels in 0..255 and each of the three deficiency types, every
\* channel simulate_color_blindness returns is an integer in 0..255 and is no
\* greater than the largest input channel
C8_NoAmplification ==
    (last.op = "simulate_color_blindness" /\ last.arg[4] \in CB_TYPES)
        => \A i \in 1..3 :
               /\ last.ret[i] \in 0..255
               /\ last.ret[i] <= Max(last.arg[1], Max(last.arg[2], last.arg[3]))

\* white stays white
C8_Witness ==
    /\ last.op = "simulate_color_blindness"
    /\ last.arg = <<255, 255, 255, "deuteranopia">>
    /\ last.ret = <<255, 255, 255>>

\* the coefficients of the three matrices in thousandths
ExactMilli(cb_type) ==
    IF cb_type = "deuteranopia"
    THEN << <<625, 375, 0>>, <<700, 300, 0>>, <<0, 300, 700>> >>
    ELSE IF cb_type = "protanopia"
    THEN << <<567, 433, 0>>, <<558, 442, 0>>, <<0, 242, 758>> >>
    ELSE << <<950, 50, 0>>, <<0, 433, 567>>, <<0, 475, 525>> >>

\* the linear transform in exact arithmetic, truncated toward zero
ExactTransform(r, g, b, cb_type) ==
    Tuple([i \in 1..3 |-> (ExactMilli(cb_type)[i][1] * r + ExactMilli(cb_type)[i][2] * g
                             + ExactMilli(cb_type)[i][3] * b) \div 1000], 3)

\* C9: for each of the three deficiency types simulate_color_blindness returns
\* the truncation toward zero of the linear transform of the input channels
C9_TruncatedTransform ==
    (last.op = "simulate_color_blindness" /\ last.arg[4] \in CB_TYPES)
        => last.ret = ExactTransform(last.arg[1], last.arg[2], last.arg[3], last.arg[4])

\* C10: for valid colours c1, c2 and every deficiency type d,
\* calculate_cb_contrast_ratio(c1, c2, d) is calculate_contrast_ratio of the two
\* colours that simulate_color_blindness produces under d
C10_ContrastOfSimulated ==
    (last.op = "calculate_cb_contrast_ratio" /\ BothValid)
        => last.ret = calculate_contrast_ratio(
               EncodeHex(simulate_color_blindness(hex_to_rgb(last.arg[1]).val[1],
                             hex_to_rgb(last.arg[1]).val[2], hex_to_rgb(last.arg[1]).val[3],
                             last.arg[3])),
               EncodeHex(simulate_color_blindness(hex_to_rgb(last.arg[2]).val[1],
                             hex_to_rgb(last.arg[2]).val[2], hex_to_rgb(last.arg[2]).val[3],
                             last.arg[3])))

\* a pair whose ratio the simulation changes
C10_Witness ==
    /\ last.op = "calculate_cb_contrast_ratio"
    /\ last.arg = <<HexNamed("Hot Chile"), HexNamed("Kelly Green"), "protanopia">>
    /\ last.ret.kind = "float"
    /\ last.ret # calculate_contrast_ratio(last.arg[1], last.arg[2])

\* the palette under analysis and its size
Palette == input.COLORS

N == Len(input.COLORS)

\* C11: for a palette of N colours create_contrast_matrix returns N rows of
\* N entries; entry (i, j) is None exactly when i = j and is otherwise
\* calculate_contrast_ratio(palette[i], palette[j])
C11_MatrixShape ==
    (last.op = "create_contrast_matrix" /\ last.ret.kind = "list") =>
        /\ Len(last.ret.val) = N
        /\ \A i \in 1..N :
               /\ Len(last.ret.val[i]) = N
               /\ \A j \in 1..N :
                      /\ (last.ret.val[i][j] = None) <=> (i = j)
                      /\ i # j => last.ret.val[i][j] =
                                      calculate_contrast_ratio(Palette[i][1], Palette[j][1])

\* a matrix of three rows with a ratio above 1 beside the diagonal
C11_Witness ==
    /\ last.op = "create_contrast_matrix"
    /\ last.ret.kind = "list"
    /\ N = 3
    /\ last.ret.val[2][2] = None
    /\ last.ret.val[1][2].kind = "float"
    /\ last.ret.val[1][2].val > RatioScale

\* cell (i, j) was filled by a call of calculate_contrast_ratio
Called(i, j) == \E k \in 1..Len(last.calls) : last.calls[k] = <<i, j>>

\* matrix[i][j] == matrix[j][i] for all i != j
Symmetric ==
    \A i \in 1..N : \A j \in 1..N : i # j => last.ret.val[i][j] = last.ret.val[j][i]

\* C12 as stated: the matrix is symmetric with exact equality, the ratio of
\* (i, j) being reused for (j, i) rather than computed a second time
C12_SymmetricByReuse ==
    (last.op = "create_contrast_matrix" /\ last.ret.kind = "list") =>
        /\ Symmetric
        /\ \A i \in 1..N : \A j \in 1..N : i < j => ~(Called(i, j) /\ Called(j, i))

\* C12: the matrix is symmetric with exact equality, matrix[i][j] ==
\* matrix[j][i] for all i != j; the ratio is computed by a call of
\* calculate_contrast_ratio for (i, j) and by another one for (j, i)
C12_SymmetricRecomputed ==
    (last.op = "create_contrast_matrix" /\ last.ret.kind = "list") =>
        /\ Symmetric
        /\ \A i \in 1..N : \A j \in 1..N : i # j => Called(i, j)
        /\ Len(last.calls) = N * (N - 1)

\* two different colours whose two cells hold the same ratio, each from its own call
C12_Witness ==
    /\ last.op = "create_contrast_matrix"
    /\ last.ret.kind = "list"
    /\ N >= 2
    /\ Palette[1] # Palette[2]
    /\ last.ret.val[1][2].kind = "float"
    /\ last.ret.val[1][2].val > RatioScale
    /\ last.ret.val[2][1] = last.ret.val[1][2]
    /\ Called(1, 2) /\ Called(2, 1)

\* C13: get_accessible_pairings returns exactly one record for each index
\* pair i < j rated AA18 or better, and no record for a pair rated Fail,
\* for a pair with i >= j, or for any pair twice
C13_OneRecordPerPair ==
    last.op = "get_accessible_pairings" =>
        /\ Len(last.ret) = Len(last.cells)
        /\ \A k \in 1..Len(last.ret) :
               LET i == last.cells[k][1]
                   j == last.cells[k][2]
               IN  /\ i \in 1..N /\ j \in 1..N /\ i < j
                   /\ get_contrast_rating(last.arg[i][j].val) \in {"AA18", "AA", "AAA"}
                   /\ last.ret[k] = [color1 |-> Palette[i][1], name1 |-> Palette[i][2],
                                     color2 |-> Palette[j][1], name2 |-> Palette[j][2],
                                     ratio |-> last.arg[i][j].val,
                                     rating |-> get_contrast_rating(last.arg[i][j].val)]
        /\ \A k \in 1..Len(last.cells) : \A l \in 1..Len(last.cells) :
               k # l => last.cells[k] # last.cells[l]
        /\ \A i \in 1..N : \A j \in 1..N :
               (i < j /\ get_contrast_rating(last.arg[i][j].val) # "Fail") =>
                   \E k \in 1..Len(last.cells) : last.cells[k] = <<i, j>>

\* a palette with a pair that is listed and a pair rated Fail that is not
C13_Witness ==
    /\ last.op = "get_accessible_pairings"
    /\ Len(last.ret) >= 1
    /\ \E i \in 1..N : \E j \in 1..N :
           i < j /\ get_contrast_rating(last.arg[i][j].val) = "Fail"

\* cell p comes before cell q in the enumeration: ascending lexicographic (i, j)
Before(p, q) == p[1] < q[1] \/ (p[1] = q[1] /\ p[2] < q[2])

\* C14: the list returned by get_accessible_pairings is ordered by
\* non-increasing ratio, and records of equal ratio keep their enumeration
\* order, ascending lexicographic (i, j)
C14_SortedStable ==
    last.op = "get_accessible_pairings" =>
        \A k \in 1..Len(last.ret) : \A l \in 1..Len(last.ret) :
            k < l =>
                /\ last.ret[k].ratio >= last.ret[l].ratio
                /\ last.ret[k].ratio = last.ret[l].ratio => Before(last.cells[k], last.cells[l])

\* a list that the sort had to reorder, with two equal ratios and a lower one
C14_Witness ==
    /\ last.op = "get_accessible_pairings"
    /\ Len(last.ret) >= 3
    /\ last.cells[1] # <<1, 2>>
    /\ \E k \in 1..(Len(last.ret) - 1) :
           /\ last.ret[k].ratio = last.ret[k + 1].ratio
           /\ last.ret[k] # last.ret[k + 1]
    /\ \E k \in 1..(Len(last.ret) - 1) : last.ret[k].ratio > last.ret[k + 1].ratio

\* C15: for every pairing given to get_cb_accessible each of the flags
\* deuteranopia_pass, protanopia_pass, tritanopia_pass is true iff the
\* simulated contrast ratio of that type is >= 3.0, and all_cb_pass is true
\* iff all three flags are
C15_PassFlags ==
    (last.op = "get_cb_accessible" /\ last.ret.kind = "tuple") =>
        \A k \in 1..Len(last.arg) :
            LET a == last.ret.cb_analysis[k]
                c1 == last.arg[k].color1
                c2 == last.arg[k].color2
            IN  /\ a.deuteranopia_pass <=>
                       calculate_cb_contrast_ratio(c1, c2, "deuteranopia").val >= 3 * RatioScale
                /\ a.protanopia_pass <=>
                       calculate_cb_contrast_ratio(c1, c2, "protanopia").val >= 3 * RatioScale
                /\ a.tritanopia_pass <=>
                       calculate_cb_contrast_ratio(c1, c2, "tritanopia").val >= 3 * RatioScale
                /\ a.all_cb_pass <=>
                       (a.deuteranopia_pass /\ a.protanopia_pass /\ a.tritanopia_pass)

\* an analysis with a flag that is true and a flag that is false
C15_Witness ==
    /\ last.op = "get_cb_accessible"
    /\ last.ret.kind = "tuple"
    /\ \E k \in 1..Len(last.arg) : last.ret.cb_analysis[k].all_cb_pass
    /\ \E k \in 1..Len(last.arg) :
           /\ ~last.ret.cb_analysis[k].deuteranopia_pass
           /\ ~last.ret.cb_analysis[k].all_cb_pass

\* C16: get_cb_accessible returns (a) an analysis with exactly one record
\* per input pairing, in input order, and (b) an accessible list that is
\* exactly the subsequence of the input pairings whose all_cb_pass is true,
\* in the relative order of the input
C16_AnalysisAndSubsequence ==
    (last.op = "get_cb_accessible" /\ last.ret.kind = "tuple") =>
        /\ Len(last.ret.cb_analysis) = Len(last.arg)
        /\ \A k \in 1..Len(last.arg) :
               /\ last.ret.cb_analysis[k].color1 = last.arg[k].color1
               /\ last.ret.cb_analysis[k].name1 = last.arg[k].name1
               /\ last.ret.cb_analysis[k].color2 = last.arg[k].color2
               /\ last.ret.cb_analysis[k].name2 = last.arg[k].name2
               /\ last.ret.cb_analysis[k].normal_ratio = last.arg[k].ratio
               /\ last.ret.cb_analysis[k].normal_rating = last.arg[k].rating
        /\ Len(last.ret.cb_accessible) = Len(last.positions)
        /\ \A m \in 1..Len(last.positions) :
               /\ last.positions[m] \in 1..Len(last.arg)
               /\ m > 1 => last.positions[m - 1] < last.positions[m]
               /\ last.ret.cb_accessible[m] = last.arg[last.positions[m]]
        /\ \A k \in 1..Len(last.arg) :
               last.ret.cb_analysis[k].all_cb_pass <=>
                   \E m \in 1..Len(last.positions) : last.positions[m] = k

\* two pairings kept with a dropped one between them
C16_Witness ==
    /\ last.op = "get_cb_accessible"
    /\ last.ret.kind = "tuple"
    /\ Len(last.ret.cb_accessible) >= 2
    /\ \E m \in 1..(Len(last.positions) - 1) : last.positions[m + 1] > last.positions[m] + 1

\* C17: when the palette has fewer than 2 colours the report is generated
\* without an error, the division by the number of pairs is not made, and
\* the percentages of the summary are reported as N/A
C17_NoPairsNoDivision ==
    (last.op = "generate_html_report" /\ N < 2) =>
        /\ last.ret.kind = "None"
        /\ last.ret.normal_percent = "N/A"
        /\ last.ret.cb_percent = "N/A"

\* C18: for a palette of 0 or 1 colours create_contrast_matrix followed by
\* get_accessible_pairings returns an empty list and raises no error
C18_SmallPaletteEmpty ==
    N < 2 =>
        /\ last.op = "create_contrast_matrix" =>
               /\ last.ret.kind = "list"
               /\ Len(last.ret.val) = N
               /\ ENABLED GetAccessiblePairings
        /\ last.op = "get_accessible_pairings" => last.ret = <<>>

\* the pairings of a palette of one colour
C18_Witness ==
    /\ N = 1
    /\ last.op = "get_accessible_pairings"
    /\ last.arg = <<<<None>>>>
    /\ last.ret = <<>>

\* a colour of the palette is not a well-formed hex code
HasMalformed == \E k \in 1..N : ~ValidHex(Palette[k][1])

\* C19: if one colour string of the analysed set is malformed, the analysis
\* of the pairs involving it fails with an error visible to the caller, in
\* create_contrast_matrix as in check_multi_color_contrast; such a pair is
\* never silently left out of the results or silently analysed
C19_MalformedFailsExplicitly ==
    (N >= 2 /\ HasMalformed) =>
        /\ last.op = "create_contrast_matrix" => last.ret.kind = "ValueError"
        /\ last.op = "check_multi_color_contrast" => last.ret.kind = "ValueError"

\* the record r pairs Hot Chile #7E0018 with Kelly Green #00B408
RedGreen(r) == {r.color1, r.color2} = {HexNamed("Hot Chile"), HexNamed("Kelly Green")}

\* C20: the pair Hot Chile / Kelly Green has a normal-vision ratio >= 3.0
\* and is returned by get_accessible_pairings, while its deuteranopia ratio
\* is lower than the normal ratio and below 3.0, so that get_cb_accessible
\* sets deuteranopia_pass and all_cb_pass to false and leaves the pair out
\* of the accessible list
C20_RedGreenExcluded ==
    /\ (/\ last.op = "get_accessible_pairings"
        /\ \E i \in 1..N : \E j \in 1..N :
               Palette[i][2] = "Hot Chile" /\ Palette[j][2] = "Kelly Green") =>
           \E k \in 1..Len(last.ret) :
               RedGreen(last.ret[k]) /\ last.ret[k].ratio >= 3 * RatioScale
    /\ (last.op = "get_cb_accessible" /\ last.ret.kind = "tuple") =>
           /\ \A k \in 1..Len(last.arg) :
                  RedGreen(last.arg[k]) =>
                      /\ last.ret.cb_analysis[k].deuteranopia_ratio =
                             calculate_cb_contrast_ratio(last.arg[k].color1, last.arg[k].color2,
                                                         "deuteranopia").val
                      /\ last.ret.cb_analysis[k].deuteranopia_ratio < last.arg[k].ratio
                      /\ last.ret.cb_analysis[k].deuteranopia_ratio < 3 * RatioScale
                      /\ ~last.ret.cb_analysis[k].deuteranopia_pass
                      /\ ~last.ret.cb_analysis[k].all_cb_pass
           /\ \A m \in 1..Len(last.ret.cb_accessible) : ~RedGreen(last.ret.cb_accessible[m])

\* the palette of the source: the pair is among the pairings given to
\* get_cb_accessible, other pairings are kept, this one is not
C20_Witness ==
    /\ input.COLORS = COLORS
    /\ last.op = "get_cb_accessible"
    /\ \E k \in 1..Len(last.arg) :
           /\ RedGreen(last.arg[k])
           /\ last.arg[k].ratio >= 3 * RatioScale
           /\ ~last.ret.cb_analysis[k].all_cb_pass
    /\ Len(last.ret.cb_accessible) >= 1
    /\ \A m \in 1..Len(last.ret.cb_accessible) : ~RedGreen(last.ret.cb_accessible[m])

\* the gamma-expanded channel c in units of 1/AdjScale: c / 255 / 12.92 up to
\* c = 10, the last channel value with c / 255 <= 0.03928, and the power
\* ((c / 255 + 0.055) / 1.055)^2.4 above
Expanded(c) ==
    IF c <= 10 THEN (c * 100 * AdjScale) \div (255 * 1292) ELSE Pow24Table[c + 1]

\* C21: for channels in 0..255 rgb_to_luminance returns a value in [0, 1],
\* 0 for black and 1 for white, with the linear branch exactly when the
\* normalised channel is <= 0.03928 and the power branch otherwise, weighted
\* 0.2126 R + 0.7152 G + 0.0722 B; relative_luminance of the audit returns
\* the same value for the same triple
C21_LuminanceFormula ==
    last.op \in {"rgb_to_luminance", "relative_luminance"} =>
        /\ last.ret \in 0..LumScale
        /\ last.ret = (2126 * Expanded(last.arg[1]) + 7152 * Expanded(last.arg[2])
                       + 722 * Expanded(last.arg[3])) \div 1000
        /\ last.arg = <<0, 0, 0>> => last.ret = 0
        /\ last.arg = <<255, 255, 255>> => last.ret = LumScale
        /\ last.ret = rgb_to_luminance(last.arg[1], last.arg[2], last.arg[3])
        /\ last.ret = relative_luminance(last.arg)

\* a triple with a channel on each side of the threshold
C21_Witness ==
    /\ last.op = "relative_luminance"
    /\ last.arg = <<10, 11, 255>>
    /\ last.ret > 0
    /\ last.ret < LumScale

MainSucceeded ==
    /\ last.op = "main"
    /\ last.pc = "returned"
    /\ last.ret.success = TRUE
    /\ last.ret.html_path = html_path_of(input.output_dir)
    /\ last.ret.html_path \in last.files
    /\ last.steps[1] = "matrix" /\ last.steps[2] = "pairings"
    /\ last.steps[3] = "cb" /\ last.steps[4] = "report"

\* C23: main on the built-in palette completes every step in order (matrix,
\* accessible pairings, colour-blindness analysis, HTML report);
\* generate_html_report does not raise and writes the report to
\* output_path, and main returns a result with success True and the
\* html_path of the file written
C23_MainCompletes ==
    /\ [](input.COLORS = COLORS => (last.op = "main" => last.pc # "raised"))
    /\ (input.COLORS = COLORS) ~> MainSucceeded

\* main returned for the built-in palette with the default output directory
C23_Witness ==
    /\ input.COLORS = COLORS
    /\ input.output_dir = "None"
    /\ MainSucceeded
    /\ Len(last.ret.pairings) > 100

\* the issue that estimate_contrast_issues reports for labels without halo
LabelsWithoutHalo == "Labels without halo - check contrast against varied backgrounds"

\* the issue is part of the string that the call returned
Flagged == \E i \in 1..Len(last.issues) : last.issues[i] = LabelsWithoutHalo

\* C24: estimate_contrast_issues flags labels without halo: when the label
\* info that analyze_labels returned has a font colour and its halo_enabled
\* says that there is no halo ("No" in the layer-file extractor, False in the
\* map extractor), the returned string contains "Labels without halo", and
\* when the halo is enabled it does not
C24_LabelsWithoutHaloFlagged ==
    last.op \in {"estimate_contrast_issues", "map_estimate_contrast_issues"} =>
        /\ (last.arg[2].font_color # <<>>
              /\ last.arg[2].halo_enabled \in {PyStr("No"), PyBool(FALSE)}) => Flagged
        /\ last.arg[2].halo_enabled \in {PyStr("Yes"), PyBool(TRUE)} => ~Flagged

\* C25: every row that the extractors emit, for a layer, for a layer whose
\* processing raised and for a file that could not be loaded, has as many
\* columns as the header list of its extractor, so that the last cell of an
\* error row, the message, is under "Extraction Notes"
C25_RowsMatchHeaders ==
    /\ last.op = "process_layer_file" =>
          \A i \in 1..Len(last.ret) : Len(last.ret[i]) = Len(headers)
    /\ last.op \in {"extract_batch_baseline_data", "extract_baseline_data"} =>
          \A i \in 2..Len(last.csv) : Len(last.csv[i]) = Len(last.csv[1])

\* the index of the column with this header
Col(hdrs, name) == CHOOSE k \in 1..Len(hdrs) : hdrs[k] = name

\* C26: in every row of a layer the columns "Font Bold", "Halo Enabled" and
\* "Popup Enabled" agree with the analysers: "No" when analyze_labels found
\* the font not bold, "No" when it found no halo, and "Yes" only when
\* analyze_popups found popups enabled
C26_CellsAgreeWithAnalyzers ==
    /\ last.op = "process_layer_file" =>
          \A i \in 1..Len(last.ret) :
              last.arg.layers[last.sources[i]].error = "" =>
                  /\ analyze_labels(last.arg.layers[last.sources[i]]).font_bold = PyStr("No")
                        => last.ret[i][Col(headers, "Font Bold")] = "No"
                  /\ analyze_labels(last.arg.layers[last.sources[i]]).halo_enabled = PyStr("No")
                        => last.ret[i][Col(headers, "Halo Enabled")] = "No"
                  /\ last.ret[i][Col(headers, "Popup Enabled")] = "Yes"
                        => analyze_popups(last.arg.layers[last.sources[i]]).popup_enabled = PyStr("Yes")
    /\ last.op = "extract_baseline_data" =>
          \A i \in 1..Len(last.sources) :
              last.arg.layers[last.sources[i]].error = "" =>
                  /\ map_analyze_labels(last.arg.layers[last.sources[i]]).font_bold = PyBool(FALSE)
                        => last.csv[i + 1][Col(map_headers, "Font Bold")] = "No"
                  /\ map_analyze_labels(last.arg.layers[last.sources[i]]).halo_enabled = PyBool(FALSE)
                        => last.csv[i + 1][Col(map_headers, "Halo Enabled")] = "No"
                  /\ last.csv[i + 1][Col(map_headers, "Popup Enabled")] = "Yes"
                        => map_analyze_popups(last.arg.layers[last.sources[i]]).popup_enabled = PyBool(TRUE)

\* C27: in the CONTRAST_PAIRS_CB_SAFE list that generate_html_report writes,
\* every tuple but the last is followed by a comma and the last is not,
\* whatever the pattern of the all_cb_pass flags is
C27_CommasSeparateTuples ==
    last.op = "generate_html_report" =>
        \A m \in 1..Len(last.cb_safe) : last.cb_safe[m].comma <=> m < Len(last.cb_safe)

\* C28: the pairs accessible under colour blindness are among the pairs
\* accessible to normal vision, which are among the N * (N - 1) / 2 pairs of
\* the palette: len(cb_accessible) <= len(pairings) <= N * (N - 1) / 2, every
\* record of cb_accessible is a record of pairings, and the counts of the
\* report are ordered the same way
C28_CountsNested ==
    /\ last.op = "get_accessible_pairings" => 2 * Len(last.ret) <= N * (N - 1)
    /\ (last.op = "get_cb_accessible" /\ last.ret.kind = "tuple") =>
          /\ Len(last.ret.cb_accessible) <= Len(last.arg)
          /\ 2 * Len(last.arg) <= N * (N - 1)
          /\ \A m \in 1..Len(last.ret.cb_accessible) :
                \E k \in 1..Len(last.arg) : last.arg[k] = last.ret.cb_accessible[m]
    /\ (last.op = "generate_html_report" /\ last.ret.kind = "None") =>
          /\ last.ret.cb_count <= last.ret.normal_count
          /\ last.ret.normal_count <= last.ret.total_pairs

\* some but not all pairs of the palette are accessible to normal vision, and
\* some but not all of these under colour blindness
C28_Witness ==
    /\ last.op = "get_cb_accessible"
    /\ last.ret.kind = "tuple"
    /\ 0 < Len(last.ret.cb_accessible)
    /\ Len(last.ret.cb_accessible) < Len(last.arg)
    /\ 2 * Len(last.arg) < N * (N - 1)

\* C29: an achromatic colour (v, v, v), v in 0..255, is a fixed point of
\* simulate_color_blindness for each of the three deficiency types; hence
\* black on white keeps its ratio under every type
C29_AchromaticFixedPoint ==
    (last.op = "simulate_color_blindness" /\ input.cb_type \in CB_TYPES
       /\ input.r = input.g /\ input.g = input.b) =>
        last.ret = <<input.r, input.g, input.b>>

\* C30: in the row loop of the audit every counted row is counted either as
\* pass or as needs-work, stats['pass'] + stats['needs_work'] ==
\* stats['total'], and a row can be counted as pass: for some combination of
\* issue lists determine_initial_status returns a status other than
\* "needs-work"
C30_PassOrNeedsWork ==
    last.op = "audit_to_json" =>
        /\ last.stats.pass + last.stats.needs_work = last.stats.total
        /\ \E c \in IssueCombinations :
              determine_initial_status(c[1], c[2], c[3], c[4]) # "needs-work"

====
